---- MODULE Spec2Model ----
(***************************************************************************)
(* Repository Guardian: the workflow security scanner (WorkflowsScanner),  *)
(* its report generator, and the callers that scan every repository of an  *)
(* organization (cli.ts scanAllRepositories and                            *)
(* RepositoryGuardian.scanAllRepositories).                                *)
(*                                                                         *)
(* Text is modelled as a sequence of one-character strings, so that the    *)
(* regular expressions of the rule set, String.split, String.trim and      *)
(* String.endsWith are computed character by character.                    *)
(***************************************************************************)
EXTENDS Integers, Sequences, FiniteSets, TLC

(***************************************************************************)
(* Characters and string primitives                                        *)
(***************************************************************************)

\* \s of a JavaScript regular expression and the characters String.trim strips
WhiteSpace == {" ", "\t", "\r", "\n", "\f"}

\* \d
Digits == {"0", "1", "2", "3", "4", "5", "6", "7", "8", "9"}

\* the character class ['"]
Quotes == {"'", "\""}

UpperCase ==
    <<"A", "B", "C", "D", "E", "F", "G", "H", "I", "J", "K", "L", "M",
      "N", "O", "P", "Q", "R", "S", "T", "U", "V", "W", "X", "Y", "Z">>

LowerCase ==
    <<"a", "b", "c", "d", "e", "f", "g", "h", "i", "j", "k", "l", "m",
      "n", "o", "p", "q", "r", "s", "t", "u", "v", "w", "x", "y", "z">>

\* canonicalisation of one character under the /i flag
Fold(c) ==
    IF \E k \in 1..26 : UpperCase[k] = c
    THEN LowerCase[CHOOSE k \in 1..26 : UpperCase[k] = c]
    ELSE c

\* the literal w occurs in s starting at index p
At(s, p, w) ==
    /\ p >= 1
    /\ p + Len(w) - 1 <= Len(s)
    /\ \A k \in 1..Len(w) : s[p + k - 1] = w[k]

\* the literal w occurs in s starting at index p, ignoring case (/i)
AtFold(s, p, w) ==
    /\ p >= 1
    /\ p + Len(w) - 1 <= Len(s)
    /\ \A k \in 1..Len(w) : Fold(s[p + k - 1]) = Fold(w[k])

\* s[a..b] exists and consists of characters of the class cls
RunIn(s, a, b, cls) ==
    /\ a >= 1
    /\ b <= Len(s)
    /\ \A k \in a..b : s[k] \in cls

\* s[a..b] exists and consists of characters outside the class cls
RunNotIn(s, a, b, cls) ==
    /\ a >= 1
    /\ b <= Len(s)
    /\ \A k \in a..b : s[k] \notin cls

\* String.prototype.endsWith
EndsWith(s, suffix) ==
    /\ Len(suffix) <= Len(s)
    /\ At(s, Len(s) - Len(suffix) + 1, suffix)

\* String.prototype.trim
RECURSIVE TrimStart(_)
TrimStart(s) ==
    IF s # <<>> /\ Head(s) \in WhiteSpace THEN TrimStart(Tail(s)) ELSE s

RECURSIVE TrimEnd(_)
TrimEnd(s) ==
    IF s # <<>> /\ s[Len(s)] \in WhiteSpace
    THEN TrimEnd(SubSeq(s, 1, Len(s) - 1))
    ELSE s

\* trimStart in place of trim
TrimStartOnly(s) == TrimStart(s)

Trim(s) == TrimEnd(TrimStart(s))

\* content.split("\n"): the pieces between line feeds; the empty string
\* gives one empty line, a trailing line feed gives a trailing empty line
RECURSIVE SplitFrom(_)
SplitFrom(s) ==
    IF \A i \in 1..Len(s) : s[i] # "\n" THEN <<s>>
    ELSE LET lf == CHOOSE i \in 1..Len(s) :
                     /\ s[i] = "\n"
                     /\ \A j \in 1..(i - 1) : s[j] # "\n"
         IN  <<SubSeq(s, 1, lf - 1)>> \o SplitFrom(SubSeq(s, lf + 1, Len(s)))

SplitLines(content) == SplitFrom(content)

(***************************************************************************)
(* Literals of the rule patterns                                           *)
(***************************************************************************)

KwPassword ==
    <<"p", "a", "s", "s", "w", "o", "r", "d">>

KwToken ==
    <<"t", "o", "k", "e", "n">>

KwKey ==
    <<"k", "e", "y">>

KwSecret ==
    <<"s", "e", "c", "r", "e", "t">>

KwUses ==
    <<"u", "s", "e", "s", ":">>

KwMain ==
    <<"m", "a", "i", "n">>

KwMaster ==
    <<"m", "a", "s", "t", "e", "r">>

KwLatest ==
    <<"l", "a", "t", "e", "s", "t">>

KwActions ==
    <<"a", "c", "t", "i", "o", "n", "s", "/">>

KwLocal ==
    <<".", "/">>

KwOpen ==
    <<"$", "{", "{">>

KwIssueTitle ==
    <<"g", "i", "t", "h", "u", "b", ".", "e", "v", "e", "n", "t", ".", "i",
      "s", "s", "u", "e", ".", "t", "i", "t", "l", "e">>

KwClose ==
    <<"}", "}">>

SfxYml ==
    <<".", "y", "m", "l">>

SfxYaml ==
    <<".", "y", "a", "m", "l">>

(***************************************************************************)
(* The rule patterns.  A pattern without the g flag is stateless, and      *)
(* RegExp.test answers whether some position and some choice of the        *)
(* repetition counts gives a match; the quantified indices below are those *)
(* choices.                                                                *)
(***************************************************************************)

\* the pattern without its i flag
MatchPlaintextSecretCaseSensitive(line) ==
    \E w \in {KwPassword, KwToken, KwKey, KwSecret} :
      \E p \in 1..Len(line) :
        /\ At(line, p, w)
        /\ At(line, p + Len(w), <<":">>)
        /\ LET e == p + Len(w) + 1
           IN  \E ws \in 0..Len(line) :
                 /\ RunIn(line, e, e + ws - 1, WhiteSpace)
                 /\ RunIn(line, e + ws, e + ws, Quotes)
                 /\ \E n \in 1..Len(line) :
                      /\ RunNotIn(line, e + ws + 1, e + ws + n, Quotes)
                      /\ RunIn(line, e + ws + n + 1, e + ws + n + 1, Quotes)

\* /(password|token|key|secret):\s*['"][^'"]+['"]/i
MatchPlaintextSecret(line) ==
    \E w \in {KwPassword, KwToken, KwKey, KwSecret} :
      \E p \in 1..Len(line) :
        /\ AtFold(line, p, w)
        /\ At(line, p + Len(w), <<":">>)
        /\ LET e == p + Len(w) + 1
           IN  \E ws \in 0..Len(line) :
                 /\ RunIn(line, e, e + ws - 1, WhiteSpace)
                 /\ RunIn(line, e + ws, e + ws, Quotes)
                 /\ \E n \in 1..Len(line) :
                      /\ RunNotIn(line, e + ws + 1, e + ws + n, Quotes)
                      /\ RunIn(line, e + ws + n + 1, e + ws + n + 1, Quotes)

\* /uses:\s*([^@]+)@(main|master|latest|\d+)/i
MatchUnpinnedAction(line) ==
    \E p \in 1..Len(line) :
      /\ AtFold(line, p, KwUses)
      /\ LET e == p + Len(KwUses)
         IN  \E ws \in 0..Len(line) :
               /\ RunIn(line, e, e + ws - 1, WhiteSpace)
               /\ \E n \in 1..Len(line) :
                    /\ RunNotIn(line, e + ws, e + ws + n - 1, {"@"})
                    /\ At(line, e + ws + n, <<"@">>)
                    /\ LET r == e + ws + n + 1
                       IN  \/ AtFold(line, r, KwMain)
                           \/ AtFold(line, r, KwMaster)
                           \/ AtFold(line, r, KwLatest)
                           \/ RunIn(line, r, r, Digits)

\* /uses:\s*(?!actions\/|\.\/)/
MatchThirdPartyAction(line) ==
    \E p \in 1..Len(line) :
      /\ At(line, p, KwUses)
      /\ LET e == p + Len(KwUses)
         IN  \E ws \in 0..Len(line) :
               /\ RunIn(line, e, e + ws - 1, WhiteSpace)
               /\ ~At(line, e + ws, KwActions)
               /\ ~At(line, e + ws, KwLocal)

\* /\$\{\{\s*github\.event\.issue\.title\s*\}\}/
MatchScriptInjection(line) ==
    \E p \in 1..Len(line) :
      /\ At(line, p, KwOpen)
      /\ LET e == p + Len(KwOpen)
         IN  \E ws \in 0..Len(line) :
               /\ RunIn(line, e, e + ws - 1, WhiteSpace)
               /\ At(line, e + ws, KwIssueTitle)
               /\ LET f == e + ws + Len(KwIssueTitle)
                  IN  \E vs \in 0..Len(line) :
                        /\ RunIn(line, f, f + vs - 1, WhiteSpace)
                        /\ At(line, f + vs, KwClose)

\* rule.pattern.test(line)
PatternTest(pattern, line) ==
    CASE pattern = "plaintext-secret"   -> MatchPlaintextSecret(line)
      [] pattern = "unpinned-action"    -> MatchUnpinnedAction(line)
      [] pattern = "third-party-action" -> MatchThirdPartyAction(line)
      [] pattern = "script-injection"   -> MatchScriptInjection(line)

Severities == <<"critical", "high", "medium", "low">>

securityRules ==
    << [id          |-> "no-plaintext-secrets",
        description |-> "Avoid hardcoded secrets in workflows",
        pattern     |-> "plaintext-secret",
        severity    |-> "critical",
        remediation |-> "Use GitHub Secrets (secrets.*) instead of hardcoded values"],
       [id          |-> "pin-actions-versions",
        description |-> "Pin actions to a specific SHA",
        pattern     |-> "unpinned-action",
        severity    |-> "high",
        remediation |-> "Pin actions to a full length commit SHA instead of using branch names or version tags"],
       [id          |-> "third-party-action-review",
        description |-> "Review third-party actions",
        pattern     |-> "third-party-action",
        severity    |-> "medium",
        remediation |-> "Review third-party actions before using them or consider creating internal actions"],
       [id          |-> "script-injection",
        description |-> "Potential script injection via user inputs",
        pattern     |-> "script-injection",
        severity    |-> "high",
        remediation |-> "Sanitize user inputs before using them in scripts"] >>

(***************************************************************************)
(* WorkflowsScanner.analyzeWorkflow                                        *)
(***************************************************************************)

\* the issue with the index of the loop and the line as it stands
IssueRawLine(filename, lineNumber, rule, line) ==
    [file        |-> filename,
     line        |-> lineNumber - 1,
     rule        |-> rule.id,
     description |-> rule.description,
     severity    |-> rule.severity,
     remediation |-> rule.remediation,
     content     |-> line]

\* the issue with one severity for every rule
IssueSeverityHigh(filename, lineNumber, rule, line) ==
    [file        |-> filename,
     line        |-> lineNumber,
     rule        |-> rule.id,
     description |-> rule.description,
     severity    |-> "high",
     remediation |-> rule.remediation,
     content     |-> Trim(line)]

\* issues.push({...}) for one matching rule
Issue(filename, lineNumber, rule, line) ==
    [file        |-> filename,
     line        |-> lineNumber,
     rule        |-> rule.id,
     description |-> rule.description,
     severity    |-> rule.severity,
     remediation |-> rule.remediation,
     content     |-> Trim(line)]

\* AnalyzeLine leaving the rule loop at the first matching rule
RECURSIVE AnalyzeLineFirstMatch(_, _, _, _)
AnalyzeLineFirstMatch(filename, lineNumber, line, r) ==
    IF r > Len(securityRules) THEN <<>>
    ELSE IF PatternTest(securityRules[r].pattern, line)
         THEN <<Issue(filename, lineNumber, securityRules[r], line)>>
         ELSE AnalyzeLineFirstMatch(filename, lineNumber, line, r + 1)

\* the inner loop over securityRules, from rule index r on, for one line
RECURSIVE AnalyzeLine(_, _, _, _)
AnalyzeLine(filename, lineNumber, line, r) ==
    IF r > Len(securityRules) THEN <<>>
    ELSE (IF PatternTest(securityRules[r].pattern, line)
          THEN <<Issue(filename, lineNumber, securityRules[r], line)>>
          ELSE <<>>)
         \o AnalyzeLine(filename, lineNumber, line, r + 1)

\* the outer loop over the lines, from index i (0-based) on
RECURSIVE AnalyzeLines(_, _, _)
AnalyzeLines(filename, lines, i) ==
    IF i >= Len(lines) THEN <<>>
    ELSE AnalyzeLine(filename, i + 1, lines[i + 1], 1)
         \o AnalyzeLines(filename, lines, i + 1)

analyzeWorkflow(filename, content) ==
    AnalyzeLines(filename, SplitLines(content), 0)

(***************************************************************************)
(* The pattern objects.  securityRules is created once per module, so its  *)
(* RegExp objects, with their lastIndex, are shared by every scan.         *)
(* RegExp.prototype.test runs RegExpBuiltinExec: with the g or y flag the  *)
(* search starts at lastIndex and lastIndex is set to the end of the match *)
(* (to 0 when there is none); without them the search starts at 0 and      *)
(* lastIndex is left alone.                                                *)
(***************************************************************************)

\* the rule set with every pattern compiled with the g flag
RegExpFlagsGlobal(pattern) ==
    CASE pattern = "plaintext-secret"   -> {"g", "i"}
      [] pattern = "unpinned-action"    -> {"g", "i"}
      [] pattern = "third-party-action" -> {"g"}
      [] pattern = "script-injection"   -> {"g"}

\* the flags of the four pattern literals (the i flag is what makes the
\* matchers of the first two fold case)
RegExpFlags(pattern) ==
    CASE pattern = "plaintext-secret"   -> {"i"}
      [] pattern = "unpinned-action"    -> {"i"}
      [] pattern = "third-party-action" -> {}
      [] pattern = "script-injection"   -> {}

\* the indices at which a match of the pattern that starts at p can end
PatternEnds(pattern, line, p) ==
    CASE pattern = "plaintext-secret" ->
          {e \in 1..Len(line) :
             \E w \in {KwPassword, KwToken, KwKey, KwSecret} :
               /\ AtFold(line, p, w)
               /\ At(line, p + Len(w), <<":">>)
               /\ LET s == p + Len(w) + 1
                  IN  \E ws \in 0..Len(line) :
                        /\ RunIn(line, s, s + ws - 1, WhiteSpace)
                        /\ RunIn(line, s + ws, s + ws, Quotes)
                        /\ e - 1 >= s + ws + 1
                        /\ RunNotIn(line, s + ws + 1, e - 1, Quotes)
                        /\ RunIn(line, e, e, Quotes)}
      [] pattern = "unpinned-action" ->
          {e \in 1..Len(line) :
             /\ AtFold(line, p, KwUses)
             /\ LET s == p + Len(KwUses)
                IN  \E ws \in 0..Len(line) :
                      /\ RunIn(line, s, s + ws - 1, WhiteSpace)
                      /\ \E n \in 1..Len(line) :
                           /\ RunNotIn(line, s + ws, s + ws + n - 1, {"@"})
                           /\ At(line, s + ws + n, <<"@">>)
                           /\ LET r == s + ws + n + 1
                              IN  \/ AtFold(line, r, KwMain) /\ e = r + Len(KwMain) - 1
                                  \/ AtFold(line, r, KwMaster) /\ e = r + Len(KwMaster) - 1
                                  \/ AtFold(line, r, KwLatest) /\ e = r + Len(KwLatest) - 1
                                  \/ e >= r /\ RunIn(line, r, e, Digits)}
      [] pattern = "third-party-action" ->
          {e \in 1..Len(line) :
             /\ At(line, p, KwUses)
             /\ LET s == p + Len(KwUses)
                IN  \E ws \in 0..Len(line) :
                      /\ RunIn(line, s, s + ws - 1, WhiteSpace)
                      /\ ~At(line, s + ws, KwActions)
                      /\ ~At(line, s + ws, KwLocal)
                      /\ e = s + ws - 1}
      [] pattern = "script-injection" ->
          {e \in 1..Len(line) :
             /\ At(line, p, KwOpen)
             /\ LET s == p + Len(KwOpen)
                IN  \E ws \in 0..Len(line) :
                      /\ RunIn(line, s, s + ws - 1, WhiteSpace)
                      /\ At(line, s + ws, KwIssueTitle)
                      /\ LET f == s + ws + Len(KwIssueTitle)
                         IN  \E vs \in 0..Len(line) :
                               /\ RunIn(line, f, f + vs - 1, WhiteSpace)
                               /\ At(line, f + vs, KwClose)
                               /\ e = f + vs + Len(KwClose) - 1}

\* rule.pattern.test(line) on a pattern object whose lastIndex is lastIndex:
\* the answer and the new lastIndex.  The match found is the leftmost one
\* from the start index; its quantifiers are greedy, so it ends at the last
\* index a match from there can end.
RegExpTest(pattern, line, lastIndex) ==
    LET flags    == RegExpFlags(pattern)
        stateful == "g" \in flags \/ "y" \in flags
        from     == IF stateful THEN lastIndex ELSE 0
        starts   == {p \in (from + 1)..Len(line) :
                       /\ PatternEnds(pattern, line, p) # {}
                       /\ "y" \in flags => p = from + 1}
    IN  IF starts = {}
        THEN [matched |-> FALSE, lastIndex |-> IF stateful THEN 0 ELSE lastIndex]
        ELSE LET p    == CHOOSE q \in starts : \A u \in starts : q <= u
                 ends == PatternEnds(pattern, line, p)
                 e    == CHOOSE x \in ends : \A y \in ends : y <= x
             IN  [matched   |-> TRUE,
                  lastIndex |-> IF stateful THEN e ELSE lastIndex]

\* analyzeWorkflow on the shared pattern objects: the issues, and the
\* lastIndex of every pattern afterwards.  The loop over the rules of one
\* line, from rule r on:
RECURSIVE ExecLine(_, _, _, _, _)
ExecLine(filename, lineNumber, line, r, lastIndexes) ==
    IF r > Len(securityRules) THEN [issues |-> <<>>, lastIndexes |-> lastIndexes]
    ELSE LET t    == RegExpTest(securityRules[r].pattern, line, lastIndexes[r])
             rest == ExecLine(filename, lineNumber, line, r + 1,
                              [lastIndexes EXCEPT ![r] = t.lastIndex])
         IN  [issues      |-> (IF t.matched
                               THEN <<Issue(filename, lineNumber, securityRules[r], line)>>
                               ELSE <<>>) \o rest.issues,
              lastIndexes |-> rest.lastIndexes]

\* the loop over the lines, from index i (0-based) on
RECURSIVE ExecLines(_, _, _, _)
ExecLines(filename, lines, i, lastIndexes) ==
    IF i >= Len(lines) THEN [issues |-> <<>>, lastIndexes |-> lastIndexes]
    ELSE LET here == ExecLine(filename, i + 1, lines[i + 1], 1, lastIndexes)
             rest == ExecLines(filename, lines, i + 1, here.lastIndexes)
         IN  [issues |-> here.issues \o rest.issues, lastIndexes |-> rest.lastIndexes]

(***************************************************************************)
(* Rendered text.  A text built by a template literal is a sequence of     *)
(* pieces: literal or interpolated strings, interpolated numbers, and      *)
(* interpolated program text (character sequences).                        *)
(***************************************************************************)

Str(s) == [kind |-> "str", s |-> s, n |-> 0, c |-> <<>>]

Num(n) == [kind |-> "num", s |-> "", n |-> n, c |-> <<>>]

Chars(c) == [kind |-> "chars", s |-> "", n |-> 0, c |-> c]

(***************************************************************************)
(* WorkflowsScanner.scanRepository.  An invocation is a record: pc is the  *)
(* await it is suspended at ("list": the directory listing, "fetch": the   *)
(* content of workflowFiles[idx]), or "returned" once the promise is       *)
(* fulfilled with result, or "rejected" if an exception escaped.           *)
(***************************************************************************)

NoResult == [repository |-> <<>>, success |-> FALSE, message |-> <<>>, issues |-> <<>>]

\* the call up to its first await (lines 59-66)
ScanCall(repo) ==
    [pc            |-> "list",
     repo          |-> repo,
     workflowFiles |-> <<>>,
     idx           |-> 0,
     issues        |-> <<>>,
     result        |-> NoResult]

ScanReturn(s, result) == [s EXCEPT !.pc = "returned", !.result = result]

\* a try block that ends before the loop
TryCoversListingOnly(pc) == pc = "list"

\* the awaits that lie inside the try block (lines 60-113)
TryCovers(pc) == pc \in {"list", "fetch"}

\* a catch block that hands out the issues collected so far
ScanCatchKeepIssues(s, message) ==
    ScanReturn(s, [repository |-> s.repo,
                   success    |-> FALSE,
                   message    |-> <<Str("Error scanning workflows: "), Str(message)>>,
                   issues     |-> s.issues])

\* the catch block (lines 113-122)
ScanCatch(s, message) ==
    IF TryCovers(s.pc)
    THEN ScanReturn(s, [repository |-> s.repo,
                        success    |-> FALSE,
                        message    |-> <<Str("Error scanning workflows: "), Str(message)>>,
                        issues     |-> <<>>])
    ELSE [s EXCEPT !.pc = "rejected"]

\* the result for a listing that is not an array (lines 68-75)
NotArrayResult(s) ==
    [repository |-> s.repo,
     success    |-> FALSE,
     message    |-> <<Str("No workflows directory found or not a directory")>>,
     issues     |-> <<>>]

\* a result that takes "nothing found" for a failure
SuccessResultOnlyWithIssues(s) ==
    [repository |-> s.repo,
     success    |-> Len(s.issues) > 0,
     issues     |-> s.issues,
     message    |-> IF Len(s.issues) > 0
                    THEN <<Str("Found "), Num(Len(s.issues)),
                           Str(" security issues in workflows")>>
                    ELSE <<Str("No security issues found in workflows")>>]

\* a message that counts the files of the listing
SuccessResultCountsFiles(s) ==
    [repository |-> s.repo,
     success    |-> TRUE,
     issues     |-> s.issues,
     message    |-> IF Len(s.workflowFiles) > 0
                    THEN <<Str("Found "), Num(Len(s.workflowFiles)),
                           Str(" security issues in workflows")>>
                    ELSE <<Str("No security issues found in workflows")>>]

\* the result after the loop (lines 104-112)
SuccessResult(s) ==
    [repository |-> s.repo,
     success    |-> TRUE,
     issues     |-> s.issues,
     message    |-> IF Len(s.issues) > 0
                    THEN <<Str("Found "), Num(Len(s.issues)),
                           Str(" security issues in workflows")>>
                    ELSE <<Str("No security issues found in workflows")>>]

\* the condition of the continue statement (lines 81-86)
\* only the type of the entry is looked at
SkippedByTypeOnly(file) ==
    file.type # "file"

Skipped(file) ==
    \/ file.type # "file"
    \/ (~EndsWith(file.name, SfxYml) /\ ~EndsWith(file.name, SfxYaml))

\* the for-of loop from entry number from on, up to the next await or the
\* return after the loop
ScanLoop(s, from) ==
    IF \E j \in from..Len(s.workflowFiles) : ~Skipped(s.workflowFiles[j])
    THEN [s EXCEPT !.pc  = "fetch",
                   !.idx = CHOOSE j \in from..Len(s.workflowFiles) :
                             /\ ~Skipped(s.workflowFiles[j])
                             /\ \A i \in from..(j - 1) : Skipped(s.workflowFiles[i])]
    ELSE ScanReturn(s, SuccessResult(s))

\* Buffer.from(content, "base64").toString(): the decoder passes over the
\* characters that are outside the base64 alphabet and never throws, so
\* the result is the text that the characters of the alphabet encode
FromBase64(encoded) == encoded.text

\* what the content API sends for the text: its base64 encoding, which
\* holds no character from outside the alphabet
Base64(text) == [encoding |-> "base64", text |-> text, stray |-> 0]

\* a listing check that also rejects the empty array
OnListingEmptyIsMissing(s, response) ==
    CASE response.kind = "throw"  -> ScanCatch(s, response.message)
      [] response.kind = "object" -> ScanReturn(s, NotArrayResult(s))
      [] response.kind = "array"  ->
           IF response.files = <<>> THEN ScanReturn(s, NotArrayResult(s))
           ELSE ScanLoop([s EXCEPT !.workflowFiles = response.files, !.issues = <<>>], 1)

\* the continuation of the first await (lines 62-78)
OnListing(s, response) ==
    CASE response.kind = "throw"  -> ScanCatch(s, response.message)
      [] response.kind = "object" -> ScanReturn(s, NotArrayResult(s))
      [] response.kind = "array"  ->
           ScanLoop([s EXCEPT !.workflowFiles = response.files, !.issues = <<>>], 1)

\* issues.unshift(...fileIssues)
PushIssuesFront(issues, fileIssues) == fileIssues \o issues

\* issues.push(...fileIssues)
PushIssues(issues, fileIssues) == issues \o fileIssues

\* the continuation of the await in the loop (lines 88-102)
OnContent(s, response) ==
    CASE response.kind = "throw" -> ScanCatch(s, response.message)
      [] response.kind = "data"  ->
           IF response.hasContent
           THEN ScanLoop([s EXCEPT !.issues =
                            PushIssues(s.issues,
                                       analyzeWorkflow(s.workflowFiles[s.idx].name,
                                                       FromBase64(response.content)))],
                         s.idx + 1)
           ELSE ScanLoop(s, s.idx + 1)

(***************************************************************************)
(* WorkflowsScanner.generateReport and formatIssues.  A report is a        *)
(* sequence of lines, a line a sequence of pieces.                         *)
(***************************************************************************)

Blank == <<>>

\* the grave accent of the Markdown code markup, which a string of this
\* language cannot hold
Tick == "GRAVE ACCENT"

FormatIssue(issue) ==
    << <<Str("### "), Str(issue.rule)>>, Blank,
       <<Str("**File**: "), Str(Tick), Chars(issue.file), Str(Tick),
         Str(" (line "), Num(issue.line), Str(")")>>, Blank,
       <<Str("**Description**: "), Str(issue.description)>>, Blank,
       <<Str("**Code**:")>>,
       <<Str(Tick), Str(Tick), Str(Tick), Str("yaml")>>,
       <<Chars(issue.content)>>,
       <<Str(Tick), Str(Tick), Str(Tick)>>, Blank,
       <<Str("**Remediation**: "), Str(issue.remediation)>>, Blank,
       <<Str("---")>>, Blank >>

\* formatIssues walking the list from its end
RECURSIVE formatIssuesReversed(_)
formatIssuesReversed(issues) ==
    IF issues = <<>> THEN <<>>
    ELSE formatIssuesReversed(Tail(issues)) \o FormatIssue(Head(issues))

RECURSIVE formatIssues(_)
formatIssues(issues) ==
    IF issues = <<>> THEN <<>>
    ELSE FormatIssue(Head(issues)) \o formatIssues(Tail(issues))

ReportHeader(scanResult) ==
    << <<Str("# Workflow Security Scan Report for "), Chars(scanResult.repository)>>, Blank >>

\* one "## <Severity> Issues" section, present when the bucket is not empty
SeveritySection(title, bucket) ==
    IF Len(bucket) > 0
    THEN << <<Str(title)>>, Blank >> \o formatIssues(bucket)
    ELSE <<>>

\* FilterSeverity taking a critical issue for a high one as well
FilterSeverityLoose(issues, sev) ==
    LET Is(issue) == issue.severity = sev \/ (sev = "high" /\ issue.severity = "critical")
    IN  SelectSeq(issues, Is)

\* issues.filter((issue) => issue.severity === sev)
FilterSeverity(issues, sev) ==
    LET Is(issue) == issue.severity = sev IN SelectSeq(issues, Is)

\* lines 163-166, without the return
ErrorSection(scanResult) ==
    << <<Str("## Error")>>, Blank, scanResult.message, Blank >>

\* lines 168-172, without the return
NoIssuesSection ==
    << <<Str("## Summary")>>, Blank,
       <<Str("No security issues found in workflows. Good job!")>>, Blank >>

\* lines 174-213
IssuesSections(scanResult) ==
    LET criticalIssues == FilterSeverity(scanResult.issues, "critical")
        highIssues     == FilterSeverity(scanResult.issues, "high")
        mediumIssues   == FilterSeverity(scanResult.issues, "medium")
        lowIssues      == FilterSeverity(scanResult.issues, "low")
    IN  << <<Str("## Summary")>>, Blank,
           <<Str("- Critical: "), Num(Len(criticalIssues))>>,
           <<Str("- High: "), Num(Len(highIssues))>>,
           <<Str("- Medium: "), Num(Len(mediumIssues))>>,
           <<Str("- Low: "), Num(Len(lowIssues))>>, Blank >>
        \o SeveritySection("## Critical Issues", criticalIssues)
        \o SeveritySection("## High Issues", highIssues)
        \o SeveritySection("## Medium Issues", mediumIssues)
        \o SeveritySection("## Low Issues", lowIssues)

\* generateReport without the return of line 165
generateReportNoEarlyReturn(scanResult) ==
    ReportHeader(scanResult)
    \o (IF ~scanResult.success THEN ErrorSection(scanResult) ELSE <<>>)
    \o (IF Len(scanResult.issues) = 0 THEN NoIssuesSection ELSE IssuesSections(scanResult))

\* generateReport without the branch of lines 168-172
generateReportNoEmptyCase(scanResult) ==
    ReportHeader(scanResult)
    \o (IF ~scanResult.success THEN ErrorSection(scanResult)
        ELSE IssuesSections(scanResult))

generateReport(scanResult) ==
    ReportHeader(scanResult)
    \o (IF ~scanResult.success THEN ErrorSection(scanResult)
        ELSE IF Len(scanResult.issues) = 0 THEN NoIssuesSection
        ELSE IssuesSections(scanResult))

(***************************************************************************)
(* The source provider (the GitHub API) and what it can answer             *)
(***************************************************************************)

\* the most entries a workflows directory holds
MaxFiles == 2

NameCi ==
    <<"c", "i", ".", "y", "m", "l">>

NameRelease ==
    <<"r", "e", "l", "e", "a", "s", "e", ".", "y", "a", "m", "l">>

NameNotes ==
    <<"n", "o", "t", "e", "s", ".", "t", "x", "t">>

NameNested ==
    <<"n", "e", "s", "t", "e", "d", ".", "y", "m", "l">>

WorkflowsDir ==
    <<".", "g", "i", "t", "h", "u", "b", "/", "w", "o", "r", "k", "f", "l",
      "o", "w", "s", "/">>

\* workflow texts: lines matching no rule, one rule, two rules and all four
CleanYml ==
    <<"n", "a", "m", "e", ":", " ", "C", "I", "\n", "r", "u", "n", ":",
      " ", "m", "a", "k", "e">>

RiskyYml ==
    <<"j", "o", "b", "s", ":", "\n", " ", " ", "u", "s", "e", "s", ":",
      " ", "e", "v", "i", "l", "/", "a", "c", "t", "@", "m", "a", "i", "n",
      "\n", " ", " ", "P", "A", "S", "S", "W", "O", "R", "D", ":", " ",
      "\"", "s", "3", "\"", "\n">>

MixedYml ==
    <<"u", "s", "e", "s", ":", " ", "a", "c", "t", "i", "o", "n", "s", "/",
      "c", "h", "e", "c", "k", "o", "u", "t", "@", "v", "3", "\n", "r",
      "u", "n", ":", " ", "$", "{", "{", " ", "g", "i", "t", "h", "u", "b",
      ".", "e", "v", "e", "n", "t", ".", "i", "s", "s", "u", "e", ".", "t",
      "i", "t", "l", "e", "}", "}", " ", "u", "s", "e", "s", ":", " ", "x",
      "@", "1", " ", "k", "e", "y", ":", " ", "'", "a", "'">>

RepoApi ==
    <<"a", "p", "i">>

RepoWeb ==
    <<"w", "e", "b">>

Corpus == {CleanYml, RiskyYml, MixedYml}

RepoNames == {RepoApi, RepoWeb}

ErrorMessages == {"Not Found", "Bad credentials"}

Entry(type, name) == [type |-> type, name |-> name, path |-> WorkflowsDir \o name]

\* entries of a workflows directory: workflow files, another file, a directory
Entries ==
    {Entry("file", NameCi), Entry("file", NameRelease),
     Entry("file", NameNotes), Entry("dir", NameNested)}

\* the part of the provider's answers explored when two repositories are
\* scanned in a row
BatchEntries == {Entry("file", NameCi), Entry("file", NameRelease), Entry("dir", NameNested)}

\* sequences of at most n distinct elements of S
DistinctSeqs(S, n) ==
    {q \in UNION {[1..k -> S] : k \in 0..n} :
       \A i, j \in 1..Len(q) : i # j => q[i] # q[j]}

\* answers to repos.getContent for the workflows directory
ListingResponses(entries, messages) ==
    {[kind |-> "throw", message |-> m, files |-> <<>>] : m \in messages}
    \cup {[kind |-> "object", message |-> "", files |-> <<>>]}
    \cup {[kind |-> "array", message |-> "", files |-> fs] :
            fs \in DistinctSeqs(entries, MaxFiles)}

NoContent == Base64(<<>>)

\* answers to repos.getContent for one file
ContentResponses(corpus, messages) ==
    {[kind |-> "throw", message |-> m, hasContent |-> FALSE, content |-> NoContent] :
       m \in messages}
    \cup {[kind |-> "data", message |-> "", hasContent |-> FALSE, content |-> NoContent]}
    \cup {[kind |-> "data", message |-> "", hasContent |-> TRUE, content |-> Base64(c)] :
            c \in corpus}

\* answers to repos.listForOrg: the repositories of the organization, in
\* any arrangement
OrgResponses ==
    {[kind |-> "throw", message |-> m, repos |-> <<>>] : m \in {"Not Found"}}
    \cup {[kind |-> "ok", message |-> "", repos |-> rs] :
            rs \in DistinctSeqs(RepoNames, Cardinality(RepoNames))}

(***************************************************************************)
(* scanAllRepositories, of the CLI (cli.ts) and of RepositoryGuardian      *)
(* (index.ts): list the repositories of the organization, then scan them   *)
(* one after the other and keep one report per repository.                 *)
(***************************************************************************)

NoReports == [r \in {} |-> <<>>]

\* before scanAllRepositories is called; scannerReady is workflowsScanner
\* !== null (index.ts 64-69), and the CLI always constructs its scanner
BatchCall(ready) ==
    [scannerReady |-> ready,
     pc           |-> "start",
     repos        |-> <<>>,
     k            |-> 0,
     scanResults  |-> NoReports,
     error        |-> <<>>]

\* index.ts lines 270-275
BatchStart(b) ==
    IF ~b.scannerReady
    THEN [b EXCEPT !.pc = "done",
                   !.error = <<Str("Workflow scanner not initialized. Make sure GITHUB_TOKEN and organization are set.")>>]
    ELSE [b EXCEPT !.pc = "listForOrg"]

\* the catch block of scanAllRepositories (cli.ts 167-173, index.ts 294-300)
BatchCatch(b, message) ==
    [b EXCEPT !.pc = "done",
              !.error = <<Str("Error scanning repositories: "), Str(message)>>]

\* the continuation of await listForOrg up to the loop
BatchListed(b, response) ==
    IF response.kind = "throw" THEN BatchCatch(b, response.message)
    ELSE IF response.repos = <<>> THEN [b EXCEPT !.pc = "done"]
    ELSE [b EXCEPT !.pc = "scanning", !.repos = response.repos, !.k = 1]

\* scanResults[repo.name] = report (index.ts 290), or
\* writeFileSync(<repo.name>-workflow-scan-<date>.md, report) (cli.ts 157-161)
StoreReport(scanResults, name, report) ==
    [r \in DOMAIN scanResults \cup {name} |->
       IF r = name THEN report ELSE scanResults[r]]

\* a loop that gives up at the first repository whose scan failed
BatchAfterScanStopOnFailure(b, s) ==
    IF s.pc = "rejected" THEN BatchCatch(b, "unhandled rejection")
    ELSE LET stored == [b EXCEPT !.scanResults =
                          StoreReport(b.scanResults, b.repos[b.k], generateReport(s.result))]
         IN  IF b.k < Len(b.repos) /\ s.result.success
             THEN [stored EXCEPT !.k = b.k + 1]
             ELSE [stored EXCEPT !.pc = "done"]

\* the loop body after await scanner.scanRepository(repo.name), and the
\* step to the next repository or out of the loop
BatchAfterScan(b, s) ==
    IF s.pc = "rejected" THEN BatchCatch(b, "unhandled rejection")
    ELSE LET stored == [b EXCEPT !.scanResults =
                          StoreReport(b.scanResults, b.repos[b.k], generateReport(s.result))]
         IN  IF b.k < Len(b.repos)
             THEN [stored EXCEPT !.k = b.k + 1]
             ELSE [stored EXCEPT !.pc = "done"]

(***************************************************************************)
(* index.ts: the settings and the RepositoryGuardian                       *)
(***************************************************************************)

BranchMain ==
    <<"m", "a", "i", "n">>

BranchDevelop ==
    <<"d", "e", "v", "e", "l", "o", "p">>

FrequencyDaily ==
    <<"d", "a", "i", "l", "y">>

ReviewersDefault ==
    <<"2">>

DefaultStatusChecks ==
    <<<<"t", "e", "s", "t", "s">>,
      <<"l", "i", "n", "t", "i", "n", "g">>>>

\* a configuration key or an environment variable: not set (with a value
\* of its type to fill the place), or set to a value
Unset(filler) == [set |-> FALSE, value |-> filler]

Set(value) == [set |-> TRUE, value |-> value]

\* a JavaScript number: an integer, or NaN
JsNumber(n) == [nan |-> FALSE, n |-> n]

NaN == [nan |-> TRUE, n |-> 0]

RECURSIVE DigitsValue(_)
DigitsValue(digits) ==
    LET last == digits[Len(digits)]
        unit == CHOOSE d \in 0..9 :
                  last = <<"0", "1", "2", "3", "4", "5", "6", "7", "8", "9">>[d + 1]
    IN  IF digits = <<>> THEN 0
        ELSE 10 * DigitsValue(SubSeq(digits, 1, Len(digits) - 1)) + unit

\* parseInt(text) of a text without a 0x prefix: leading white space and a
\* sign are skipped, the longest run of digits is the number, and what
\* follows is ignored; without a digit the result is NaN
ParseInt(text) ==
    LET trimmed  == TrimStart(text)
        signed   == trimmed # <<>> /\ Head(trimmed) \in {"+", "-"}
        unsigned == IF signed THEN Tail(trimmed) ELSE trimmed
        runs     == {k \in 0..Len(unsigned) : RunIn(unsigned, 1, k, Digits)}
        n        == CHOOSE k \in runs : \A j \in runs : j <= k
        value    == DigitsValue(SubSeq(unsigned, 1, n))
    IN  IF n = 0 THEN NaN
        ELSE JsNumber(IF signed /\ Head(trimmed) = "-" THEN 0 - value ELSE value)

\* text.split(",")
RECURSIVE SplitComma(_)
SplitComma(text) ==
    IF \E k \in 1..Len(text) : text[k] = ","
    THEN LET k == CHOOSE i \in 1..Len(text) :
                    text[i] = "," /\ \A j \in 1..(i - 1) : text[j] # ","
         IN  <<SubSeq(text, 1, k - 1)>> \o SplitComma(SubSeq(text, k + 1, Len(text)))
    ELSE <<text>>

\* a || b || fallback on texts: undefined and the empty text are falsy
FirstTruthyText(a, b, fallback) ==
    IF a.set /\ a.value # <<>> THEN a.value
    ELSE IF b.set /\ b.value # <<>> THEN b.value
    ELSE fallback

\* config.getNumber(...) || parseInt(process.env.MIN_REVIEWERS || "2"):
\* undefined and 0 are falsy
LoadMinReviewers(configured, fromEnv) ==
    IF configured.set /\ configured.value # 0 THEN JsNumber(configured.value)
    ELSE ParseInt(IF fromEnv.set /\ fromEnv.value # <<>> THEN fromEnv.value
                  ELSE ReviewersDefault)

\* the module's constants, from the configuration and the environment; an
\* array is truthy, also an empty one
LoadSettings(config, env) ==
    [organization         |-> FirstTruthyText(config.organization,
                                              env.GITHUB_ORGANIZATION, <<>>),
     defaultBranch        |-> FirstTruthyText(config.defaultBranch,
                                              env.DEFAULT_BRANCH, BranchMain),
     requiredStatusChecks |-> IF config.requiredStatusChecks.set
                              THEN config.requiredStatusChecks.value
                              ELSE IF env.REQUIRED_STATUS_CHECKS.set
                              THEN SplitComma(env.REQUIRED_STATUS_CHECKS.value)
                              ELSE DefaultStatusChecks,
     minReviewers         |-> LoadMinReviewers(config.minReviewers, env.MIN_REVIEWERS),
     scanFrequency        |-> FirstTruthyText(config.scanFrequency,
                                              env.SCAN_FREQUENCY, FrequencyDaily)]

\* new RepositoryGuardian(provider, organization, defaultBranch,
\* requiredStatusChecks, minReviewers): the fields of the object; in place
\* of the scanner, whether there is one
NewRepositoryGuardian(settings, env) ==
    [organization         |-> settings.organization,
     defaultBranch        |-> settings.defaultBranch,
     requiredStatusChecks |-> settings.requiredStatusChecks,
     minReviewers         |-> settings.minReviewers,
     workflowsScanner     |-> (env.GITHUB_TOKEN.set /\ env.GITHUB_TOKEN.value # <<>>
                               /\ settings.organization # <<>>)]

\* public repositories are protected for everyone but the administrators
ApplyBranchProtectionByVisibility(self, repo) ==
    [repositoryId                 |-> repo.nodeId,
     pattern                      |-> self.defaultBranch,
     contexts                     |-> self.requiredStatusChecks,
     requiredApprovingReviewCount |-> self.minReviewers,
     enforceAdmins                |-> repo.visibility = "private",
     allowsForcePushes            |-> FALSE,
     allowsDeletions              |-> FALSE]

\* the arguments of the BranchProtection resource
ApplyBranchProtection(self, repo) ==
    [repositoryId                 |-> repo.nodeId,
     pattern                      |-> self.defaultBranch,
     contexts                     |-> self.requiredStatusChecks,
     requiredApprovingReviewCount |-> self.minReviewers,
     enforceAdmins                |-> TRUE,
     allowsForcePushes            |-> FALSE,
     allowsDeletions              |-> FALSE]

\* the content of the workflow file (lines 158-184)
SecurityScanWorkflow ==
    <<"n", "a", "m", "e", ":", " ", "S", "e", "c", "u", "r", "i", "t", "y",
      " ", "S", "c", "a", "n", "\n", "\n", "o", "n", ":", "\n", " ", " ",
      "s", "c", "h", "e", "d", "u", "l", "e", ":", "\n", " ", " ", " ",
      " ", "-", " ", "c", "r", "o", "n", ":", " ", "'", "0", " ", "0", " ",
      "*", " ", "*", " ", "*", "'", " ", " ", "#", " ", "R", "u", "n", " ",
      "d", "a", "i", "l", "y", " ", "a", "t", " ", "m", "i", "d", "n", "i",
      "g", "h", "t", "\n", " ", " ", "w", "o", "r", "k", "f", "l", "o",
      "w", "_", "d", "i", "s", "p", "a", "t", "c", "h", ":", " ", " ", "#",
      " ", "A", "l", "l", "o", "w", " ", "m", "a", "n", "u", "a", "l", " ",
      "t", "r", "i", "g", "g", "e", "r", "i", "n", "g", "\n", "\n", "j",
      "o", "b", "s", ":", "\n", " ", " ", "s", "e", "c", "u", "r", "i",
      "t", "y", "-", "s", "c", "a", "n", ":", "\n", " ", " ", " ", " ",
      "r", "u", "n", "s", "-", "o", "n", ":", " ", "u", "b", "u", "n", "t",
      "u", "-", "l", "a", "t", "e", "s", "t", "\n", " ", " ", " ", " ",
      "s", "t", "e", "p", "s", ":", "\n", " ", " ", " ", " ", " ", " ",
      "-", " ", "n", "a", "m", "e", ":", " ", "C", "h", "e", "c", "k", "o",
      "u", "t", " ", "c", "o", "d", "e", "\n", " ", " ", " ", " ", " ",
      " ", " ", " ", "u", "s", "e", "s", ":", " ", "a", "c", "t", "i", "o",
      "n", "s", "/", "c", "h", "e", "c", "k", "o", "u", "t", "@", "v", "3",
      "\n", "\n", " ", " ", " ", " ", " ", " ", "-", " ", "n", "a", "m",
      "e", ":", " ", "R", "u", "n", " ", "T", "r", "i", "v", "y", " ", "v",
      "u", "l", "n", "e", "r", "a", "b", "i", "l", "i", "t", "y", " ", "s",
      "c", "a", "n", "n", "e", "r", "\n", " ", " ", " ", " ", " ", " ",
      " ", " ", "u", "s", "e", "s", ":", " ", "a", "q", "u", "a", "s", "e",
      "c", "u", "r", "i", "t", "y", "/", "t", "r", "i", "v", "y", "-", "a",
      "c", "t", "i", "o", "n", "@", "m", "a", "s", "t", "e", "r", "\n",
      " ", " ", " ", " ", " ", " ", " ", " ", "w", "i", "t", "h", ":",
      "\n", " ", " ", " ", " ", " ", " ", " ", " ", " ", " ", "s", "c",
      "a", "n", "-", "t", "y", "p", "e", ":", " ", "'", "f", "s", "'",
      "\n", " ", " ", " ", " ", " ", " ", " ", " ", " ", " ", "f", "o",
      "r", "m", "a", "t", ":", " ", "'", "s", "a", "r", "i", "f", "'",
      "\n", " ", " ", " ", " ", " ", " ", " ", " ", " ", " ", "o", "u",
      "t", "p", "u", "t", ":", " ", "'", "t", "r", "i", "v", "y", "-", "r",
      "e", "s", "u", "l", "t", "s", ".", "s", "a", "r", "i", "f", "'",
      "\n", " ", " ", " ", " ", " ", " ", " ", " ", " ", " ", "s", "e",
      "v", "e", "r", "i", "t", "y", ":", " ", "'", "C", "R", "I", "T", "I",
      "C", "A", "L", ",", "H", "I", "G", "H", "'", "\n", "\n", " ", " ",
      " ", " ", " ", " ", "-", " ", "n", "a", "m", "e", ":", " ", "U", "p",
      "l", "o", "a", "d", " ", "T", "r", "i", "v", "y", " ", "s", "c", "a",
      "n", " ", "r", "e", "s", "u", "l", "t", "s", " ", "t", "o", " ", "G",
      "i", "t", "H", "u", "b", " ", "S", "e", "c", "u", "r", "i", "t", "y",
      " ", "t", "a", "b", "\n", " ", " ", " ", " ", " ", " ", " ", " ",
      "u", "s", "e", "s", ":", " ", "g", "i", "t", "h", "u", "b", "/", "c",
      "o", "d", "e", "q", "l", "-", "a", "c", "t", "i", "o", "n", "/", "u",
      "p", "l", "o", "a", "d", "-", "s", "a", "r", "i", "f", "@", "v", "2",
      "\n", " ", " ", " ", " ", " ", " ", " ", " ", "w", "i", "t", "h",
      ":", "\n", " ", " ", " ", " ", " ", " ", " ", " ", " ", " ", "s",
      "a", "r", "i", "f", "_", "f", "i", "l", "e", ":", " ", "'", "t", "r",
      "i", "v", "y", "-", "r", "e", "s", "u", "l", "t", "s", ".", "s", "a",
      "r", "i", "f", "'", "\n">>

\* the two RepositoryFile resources: SECURITY.md (its text is left out)
\* and .github/workflows/security-scan.yml
MonitorWorkflowSecurity(self, repo) ==
    << [repository |-> repo.name, branch |-> self.defaultBranch, overwriteOnCreate |-> TRUE,
        file |-> <<"S", "E", "C", "U", "R", "I", "T", "Y", ".", "m", "d">>],
       [repository |-> repo.name, branch |-> self.defaultBranch, overwriteOnCreate |-> TRUE,
        file |-> WorkflowsDir \o
                 <<"s", "e", "c", "u", "r", "i", "t", "y", "-", "s", "c", "a", "n", ".", "y",
                   "m", "l">>,
        content |-> SecurityScanWorkflow] >>

\* the values interpolated into the compliance report
GenerateComplianceReport(self, settings, repo) ==
    [name                 |-> repo.name,
     defaultBranch        |-> self.defaultBranch,
     requiredStatusChecks |-> self.requiredStatusChecks,
     minReviewers         |-> self.minReviewers,
     scanFrequency        |-> settings.scanFrequency]

\* the Repository resource; the provider numbers the nodes it creates
NewRepository(nodeId, repoName, description, isPrivate) ==
    [nodeId              |-> nodeId,
     name                |-> repoName,
     description         |-> IF description # <<>> THEN description
                             ELSE
                               <<"R", "e", "p", "o", "s", "i", "t", "o", "r", "y", " ", "m", "a", "n", "a",
                                 "g", "e", "d", " ", "b", "y", " ", "R", "e",
                                 "p", "o", "s", "i", "t", "o", "r", "y", " ",
                                 "G", "u", "a", "r", "d", "i", "a", "n">>,
     visibility          |-> IF isPrivate THEN "private" ELSE "public",
     hasIssues           |-> TRUE,
     hasProjects         |-> TRUE,
     hasWiki             |-> TRUE,
     vulnerabilityAlerts |-> TRUE,
     deleteBranchOnMerge |-> TRUE]

\* before index.ts is evaluated
NoGuardian ==
    [pc           |-> "none",
     config       |-> [organization |-> Unset(<<>>), defaultBranch |-> Unset(<<>>),
                       requiredStatusChecks |-> Unset(<<>>), minReviewers |-> Unset(0),
                       scanFrequency |-> Unset(<<>>)],
     env          |-> [GITHUB_ORGANIZATION |-> Unset(<<>>), DEFAULT_BRANCH |-> Unset(<<>>),
                       REQUIRED_STATUS_CHECKS |-> Unset(<<>>), MIN_REVIEWERS |-> Unset(<<>>),
                       SCAN_FREQUENCY |-> Unset(<<>>), GITHUB_TOKEN |-> Unset(<<>>)],
     settings     |-> [organization |-> <<>>, defaultBranch |-> <<>>,
                       requiredStatusChecks |-> <<>>, minReviewers |-> NaN,
                       scanFrequency |-> <<>>],
     self         |-> [organization |-> <<>>, defaultBranch |-> <<>>,
                       requiredStatusChecks |-> <<>>, minReviewers |-> NaN,
                       workflowsScanner |-> FALSE],
     repos        |-> <<>>,
     protections  |-> <<>>,
     files        |-> <<>>,
     repositories |-> <<>>]

\* guardian.protectRepository(repoName, description, isPrivate)
ProtectRepository(g, repoName, description, isPrivate) ==
    LET repo == NewRepository(Len(g.repos) + 1, repoName, description, isPrivate)
    IN  [g EXCEPT !.repos        = Append(@, repo),
                  !.protections  = Append(@, ApplyBranchProtection(g.self, repo)),
                  !.files        = @ \o MonitorWorkflowSecurity(g.self, repo),
                  !.repositories = Append(@, GenerateComplianceReport(g.self, g.settings, repo))]

(***************************************************************************)
(* State                                                                   *)
(***************************************************************************)

VARIABLES
    batch,      \* the scanAllRepositories invocation
    scan,       \* the scanRepository invocation in progress
    provided,   \* history: what the provider answered, per scanRepository call
    returned,   \* history: the scanRepository calls that settled
    rendering,  \* a generateReport call: its argument and its return value
    lastIndexes,\* the lastIndex of the pattern object of each rule
    rescan,     \* one workflow text analysed twice, and the two outcomes
    probe,      \* one line built from its parts, and the findings it gives
    guardian,   \* index.ts: configuration, settings, the guardian, its resources
    pair,       \* the scanRepository invocations in progress on one scanner
    cli         \* cli.ts: the readline interface and the handler in progress

vars ==
    <<batch, scan, provided, returned, rendering, lastIndexes, rescan, probe, guardian,
      pair, cli>>

\* the variables of the other scenarios
elsewhere == <<lastIndexes, rescan, probe, guardian, pair, cli>>

\* the pattern objects as the module creates them
FreshPatterns == [r \in 1..Len(securityRules) |-> 0]

NoRescan == [content |-> <<>>, first |-> <<>>, second |-> <<>>, pc |-> "none"]

NoProbe ==
    [kind |-> "none", lead |-> <<>>, gap |-> <<>>, name |-> <<>>, arg |-> <<>>,
     line |-> <<>>, findings |-> <<>>, pc |-> "none"]

\* the CLI before it is started
NoCli == [pc |-> "none"]

ElsewhereIdle ==
    /\ lastIndexes = FreshPatterns
    /\ rescan = NoRescan
    /\ probe = NoProbe
    /\ guardian = NoGuardian
    /\ pair = <<>>
    /\ cli = NoCli

Idle == [ScanCall(<<>>) EXCEPT !.pc = "idle"]

NoBatch == [BatchCall(TRUE) EXCEPT !.pc = "none"]

NoRendering == [scanResult |-> NoResult, report |-> <<>>, pc |-> "none"]

NewCall(repo) == [repo |-> repo, listing |-> <<>>, contents |-> <<>>]

\* no scan, batch or report in progress, and no session of the CLI
ScannerIdle ==
    /\ batch = NoBatch
    /\ scan = Idle
    /\ provided = <<>>
    /\ returned = <<>>
    /\ rendering = NoRendering
    /\ pair = <<>>
    /\ cli = NoCli

(***************************************************************************)
(* One scanRepository call (as made by option 2 of the CLI)                *)
(***************************************************************************)

Init ==
    /\ batch = NoBatch
    /\ scan = Idle
    /\ provided = <<>>
    /\ returned = <<>>
    /\ rendering = NoRendering
    /\ ElsewhereIdle

CallScanRepository ==
    /\ batch.pc = "none"
    /\ scan.pc = "idle"
    /\ returned = <<>>
    /\ \E repo \in RepoNames :
         /\ scan' = ScanCall(repo)
         /\ provided' = Append(provided, NewCall(repo))
    /\ UNCHANGED <<batch, returned, rendering, elsewhere>>

DirectoryListed(entries, messages) ==
    /\ scan.pc = "list"
    /\ \E response \in ListingResponses(entries, messages) :
         /\ scan' = OnListing(scan, response)
         /\ provided' = [provided EXCEPT ![Len(provided)].listing = <<response>>]
    /\ UNCHANGED <<batch, returned, rendering, elsewhere>>

ContentFetched(corpus, messages) ==
    /\ scan.pc = "fetch"
    /\ \E response \in ContentResponses(corpus, messages) :
         /\ scan' = OnContent(scan, response)
         /\ provided' = [provided EXCEPT ![Len(provided)].contents =
                           Append(@, [file     |-> scan.workflowFiles[scan.idx],
                                      response |-> response])]
    /\ UNCHANGED <<batch, returned, rendering, elsewhere>>

\* the caller's await is resumed with the settled promise
ScanAwaited ==
    /\ batch.pc = "none"
    /\ scan.pc \in {"returned", "rejected"}
    /\ returned' = Append(returned, scan)
    /\ scan' = Idle
    /\ UNCHANGED <<batch, provided, rendering, elsewhere>>

GetDirectoryReturn == DirectoryListed(Entries, ErrorMessages)

GetFileReturn == ContentFetched(Corpus, ErrorMessages)

\* the content field arrives damaged: it is no base64 encoding, for a
\* character from outside the alphabet stands in it
GetDamagedFileReturn ==
    /\ scan.pc = "fetch"
    /\ \E c \in Corpus \cup {<<>>} :
         LET response == [kind |-> "data", message |-> "", hasContent |-> TRUE,
                          content |-> [Base64(c) EXCEPT !.stray = 1]]
         IN  /\ scan' = OnContent(scan, response)
             /\ provided' = [provided EXCEPT ![Len(provided)].contents =
                               Append(@, [file     |-> scan.workflowFiles[scan.idx],
                                          response |-> response])]
    /\ UNCHANGED <<batch, returned, rendering, elsewhere>>

Next ==
    \/ CallScanRepository
    \/ GetDirectoryReturn
    \/ GetFileReturn
    \/ GetDamagedFileReturn
    \/ ScanAwaited

Spec == Init /\ [][Next]_vars

(***************************************************************************)
(* scanAllRepositories                                                     *)
(***************************************************************************)

InitAll ==
    /\ batch \in {BatchCall(ready) : ready \in BOOLEAN}
    /\ scan = Idle
    /\ provided = <<>>
    /\ returned = <<>>
    /\ rendering = NoRendering
    /\ ElsewhereIdle

StartScanAll ==
    /\ batch.pc = "start"
    /\ batch' = BatchStart(batch)
    /\ UNCHANGED <<scan, provided, returned, rendering, elsewhere>>

ListForOrgReturn ==
    /\ batch.pc = "listForOrg"
    /\ \E response \in OrgResponses :
         /\ batch' = BatchListed(batch, response)
         /\ IF batch'.pc = "scanning"
            THEN /\ scan' = ScanCall(batch'.repos[1])
                 /\ provided' = Append(provided, NewCall(batch'.repos[1]))
            ELSE UNCHANGED <<scan, provided>>
    /\ UNCHANGED <<returned, rendering, elsewhere>>

BatchDirectoryReturn == DirectoryListed(BatchEntries, {"Not Found"})

BatchFileReturn == ContentFetched({RiskyYml}, {"Not Found"})

ScanSettled ==
    /\ batch.pc = "scanning"
    /\ scan.pc \in {"returned", "rejected"}
    /\ batch' = BatchAfterScan(batch, scan)
    /\ returned' = Append(returned, scan)
    /\ IF batch'.pc = "scanning"
       THEN /\ scan' = ScanCall(batch'.repos[batch'.k])
            /\ provided' = Append(provided, NewCall(batch'.repos[batch'.k]))
       ELSE /\ scan' = Idle
            /\ UNCHANGED provided
    /\ UNCHANGED <<rendering, elsewhere>>

NextAll ==
    \/ StartScanAll
    \/ ListForOrgReturn
    \/ BatchDirectoryReturn
    \/ BatchFileReturn
    \/ ScanSettled

SpecAll == InitAll /\ [][NextAll]_vars

(***************************************************************************)
(* generateReport as a function of its argument: any WorkflowScanResult,   *)
(* also one that scanRepository never builds (a failure that carries       *)
(* issues, an issue of severity low)                                       *)
(***************************************************************************)

\* the most issues in a scan result handed to generateReport
MaxIssues == 3

LowRule ==
    [id          |-> "verbose-logging",
     description |-> "Debug logging enabled",
     pattern     |-> "none",
     severity    |-> "low",
     remediation |-> "Disable debug logging"]

SampleIssues ==
    {Issue(NameCi, 1, securityRules[1], <<"k", "e", "y", ":", "'", "a", "'">>),
     Issue(NameCi, 2, securityRules[2], <<"u", "s", "e", "s", ":", "x", "@", "1">>),
     Issue(NameRelease, 1, securityRules[3], <<"u", "s", "e", "s", ":", "x">>),
     Issue(NameRelease, 7, securityRules[4], KwOpen \o KwIssueTitle \o KwClose),
     Issue(NameRelease, 9, LowRule, <<"d", "e", "b", "u", "g">>)}

SampleMessages ==
    {<<Str("Error scanning workflows: "), Str("Not Found")>>,
     <<Str("No security issues found in workflows")>>}

SampleResults ==
    {[repository |-> RepoApi, success |-> ok, message |-> m, issues |-> is] :
       ok \in BOOLEAN, m \in SampleMessages,
       is \in UNION {[1..k -> SampleIssues] : k \in 0..MaxIssues}}

InitReport ==
    /\ batch = NoBatch
    /\ scan = Idle
    /\ provided = <<>>
    /\ returned = <<>>
    /\ rendering \in {[scanResult |-> r, report |-> <<>>, pc |-> "called"] :
                        r \in SampleResults}
    /\ ElsewhereIdle

GenerateReportReturn ==
    /\ rendering.pc = "called"
    /\ rendering' = [rendering EXCEPT !.report = generateReport(rendering.scanResult),
                                      !.pc = "returned"]
    /\ UNCHANGED <<batch, scan, provided, returned, elsewhere>>

NextReport == GenerateReportReturn

SpecReport == InitReport /\ [][NextReport]_vars

(***************************************************************************)
(* analyzeWorkflow called twice on one text, through the pattern objects   *)
(* that every scan shares                                                  *)
(***************************************************************************)

\* the most lines in a text that is analysed twice
MaxLines == 2

SampleLines ==
    {
     <<"j", "o", "b", "s", ":">>,
     <<" ", " ", "u", "s", "e", "s", ":", " ", "e", "v", "i", "l", "/", "a", "c",
       "t", "@", "m", "a", "i", "n">>,
     <<"P", "A", "S", "S", "W", "O", "R", "D", ":", " ", "\"", "s", "3", "\"">>,
     <<"k", "e", "y", ":", " ", "'", "a", "'", " ", "k", "e", "y", ":", " ", "'",
       "b", "'">>,
     <<"r", "u", "n", ":", " ", "$", "{", "{", " ", "g", "i", "t", "h", "u", "b",
       ".", "e", "v", "e", "n", "t", ".", "i", "s", "s", "u", "e", ".", "t",
       "i", "t", "l", "e", "}", "}", " ", "u", "s", "e", "s", ":", " ", "x",
       "@", "1">>,
     <<"u", "s", "e", "s", ":", " ", "a", "c", "t", "i", "o", "n", "s", "/", "c",
       "h", "e", "c", "k", "o", "u", "t", "@", "v", "3">>}

\* the lines as one text, with the line ending between them
RECURSIVE JoinLines(_, _)
JoinLines(lines, eol) ==
    IF Len(lines) = 1 THEN lines[1]
    ELSE lines[1] \o eol \o JoinLines(Tail(lines), eol)

InitTwice ==
    /\ ScannerIdle
    /\ probe = NoProbe
    /\ guardian = NoGuardian
    /\ lastIndexes = FreshPatterns
    /\ rescan \in {[NoRescan EXCEPT !.content = JoinLines(lines, eol), !.pc = "first"] :
                     lines \in UNION {[1..k -> SampleLines] : k \in 1..MaxLines},
                     eol \in {<<"\n">>, <<"\r", "\n">>}}

\* this.analyzeWorkflow(filename, content), the first time and then again
AnalyzeAgain ==
    /\ rescan.pc \in {"first", "second"}
    /\ \E run \in {ExecLines(NameCi, SplitLines(rescan.content), 0, lastIndexes)} :
         /\ rescan' = IF rescan.pc = "first"
                      THEN [rescan EXCEPT !.first = run.issues, !.pc = "second"]
                      ELSE [rescan EXCEPT !.second = run.issues, !.pc = "done"]
         /\ lastIndexes' = run.lastIndexes
    /\ UNCHANGED <<batch, scan, provided, returned, rendering, probe, guardian, pair, cli>>

SpecTwice == InitTwice /\ [][AnalyzeAgain]_vars

(***************************************************************************)
(* analyzeWorkflow on one line at a time: `uses:` lines and assignments    *)
(* put together from their parts                                           *)
(***************************************************************************)

\* the number of leading characters that vary in the commit identifiers
MaxHead == 2

KeyUpper ==
    <<"P", "A", "S", "S", "W", "O", "R", "D">>

ValSuperSecret ==
    <<"\"", "s", "u", "p", "e", "r", "s", "e", "c", "r", "e", "t", "1", "2", "3",
      "\"">>

\* full-length commit identifiers: every head, before one and the same rest
ShaRefs ==
    LET fill ==
          <<"a", "1", "b", "2", "c", "3", "d", "4", "e", "5", "f", "6", "a", "7", "b",
            "8", "c", "9", "d", "0", "e", "1", "f", "2", "a", "3", "b", "4",
            "c", "5", "d", "6", "e", "7", "f", "8", "a", "9", "b", "0">>
    IN  {[k \in 1..MaxHead |-> head[k]] \o SubSeq(fill, MaxHead + 1, Len(fill)) :
           head \in [1..MaxHead -> {"0", "7", "a", "c", "f"}]}

MutableRefs == {KwMain, KwMaster, KwLatest, <<"3">>}

\* the lines probed.  A `uses:` line: lead, uses:, gap, action and, unless
\* the ref is empty, @ref.  An assignment: lead, key, a colon, gap, value.
Probes ==
    LET gaps    == {<<>>, <<" ">>}
        actions ==
          {
           <<"a", "c", "t", "i", "o", "n", "s", "/", "c", "h", "e", "c", "k", "o", "u",
             "t">>,
           <<".", "/", "l", "o", "c", "a", "l", "-", "a", "c", "t", "i", "o", "n">>,
           <<"s", "o", "m", "e", "o", "n", "e", "e", "l", "s", "e", "/", "c", "u", "s",
             "t", "o", "m", "-", "a", "c", "t", "i", "o", "n">>}
        refs    == {<<>>, <<"v", "1">>, <<"v", "3">>} \cup MutableRefs \cup ShaRefs
        keys    ==
          {KwPassword, KeyUpper, KwSecret,
           <<"a", "p", "i", "_", "t", "o", "k", "e", "n">>,
           <<"k", "e", "y", "_", "i", "d">>,
           <<"t", "o", "k", "e", "n", "s">>,
           <<"n", "a", "m", "e">>}
        values  ==
          {ValSuperSecret,
           <<"'", "x", "'">>,
           <<"\"", "x", "'">>,
           <<"\"", "\"">>,
           <<"p", "l", "a", "i", "n">>,
           <<"$", "{", "{", " ", "s", "e", "c", "r", "e", "t", "s", ".", "X", " ", "}",
             "}">>}
    IN  {[NoProbe EXCEPT !.kind = "uses", !.lead = lead, !.gap = gap, !.name = action,
                         !.arg = ref, !.pc = "ready",
                         !.line = lead \o KwUses \o gap \o action
                                    \o (IF ref = <<>> THEN <<>> ELSE <<"@">> \o ref)] :
           lead \in {<<>>, <<" ", " ", "-", " ">>}, gap \in gaps,
           action \in actions, ref \in refs}
        \cup
        {[NoProbe EXCEPT !.kind = "assign", !.lead = lead, !.gap = gap, !.name = key,
                         !.arg = value, !.pc = "ready",
                         !.line = lead \o key \o <<":">> \o gap \o value] :
           lead \in {<<>>, <<" ", " ">>}, gap \in gaps, key \in keys, value \in values}

InitRules ==
    /\ ScannerIdle
    /\ lastIndexes = FreshPatterns
    /\ rescan = NoRescan
    /\ guardian = NoGuardian
    /\ probe \in Probes

AnalyzeProbe ==
    /\ probe.pc = "ready"
    /\ probe' = [probe EXCEPT !.findings = analyzeWorkflow(NameCi, probe.line),
                              !.pc = "done"]
    /\ UNCHANGED <<batch, scan, provided, returned, rendering, lastIndexes, rescan, guardian, pair, cli>>

SpecRules == InitRules /\ [][AnalyzeProbe]_vars

(***************************************************************************)
(* index.ts: the settings are loaded (specification SpecConfig); a         *)
(* guardian is made from them and protects repositories (SpecGuardian)     *)
(***************************************************************************)

\* the largest number of reviewers set in the configuration
MaxReviewers == 3

\* the most protectRepository calls on one guardian
MaxProtected == 2

InitConfig ==
    /\ ScannerIdle
    /\ lastIndexes = FreshPatterns
    /\ rescan = NoRescan
    /\ probe = NoProbe
    /\ \E c \in [organization         : {Unset(<<>>), Set(<<"a", "c", "m", "e">>)},
                 defaultBranch        : {Unset(<<>>), Set(BranchDevelop)},
                 requiredStatusChecks : {Unset(<<>>), Set(<<>>),
                                         Set(<<<<"b", "u", "i", "l", "d">>>>)},
                 minReviewers         : {Unset(0)} \cup {Set(n) : n \in 0..MaxReviewers},
                 scanFrequency        : {Unset(<<>>), Set(<<"w", "e", "e", "k", "l", "y">>)}],
          e \in [GITHUB_ORGANIZATION    : {Unset(<<>>), Set(<<"a", "c", "m", "e", "-", "e", "n", "v">>)},
                 DEFAULT_BRANCH         : {Unset(<<>>), Set(<<"t", "r", "u", "n", "k">>)},
                 REQUIRED_STATUS_CHECKS : {Unset(<<>>), Set(<<"u", "n", "i", "t", ",", "e", "2", "e">>)},
                 MIN_REVIEWERS          : {Unset(<<>>), Set(<<"3">>), Set(<<"0">>),
                                           Set(<<"t", "w", "o">>)},
                 SCAN_FREQUENCY         : {Unset(<<>>), Set(<<"h", "o", "u", "r", "l", "y">>)},
                 GITHUB_TOKEN           : {Unset(<<>>)}] :
         guardian = [NoGuardian EXCEPT !.pc = "load", !.config = c, !.env = e]

\* the part of the configurations explored when repositories are protected
InitGuardian ==
    /\ ScannerIdle
    /\ lastIndexes = FreshPatterns
    /\ rescan = NoRescan
    /\ probe = NoProbe
    /\ \E c \in [organization         : {Unset(<<>>), Set(<<"a", "c", "m", "e">>)},
                 defaultBranch        : {Unset(<<>>), Set(BranchDevelop)},
                 requiredStatusChecks : {Unset(<<>>), Set(<<<<"b", "u", "i", "l", "d">>>>)},
                 minReviewers         : {Unset(0), Set(0), Set(MaxReviewers)},
                 scanFrequency        : {Unset(<<>>)}],
          token \in {Unset(<<>>), Set(<<"g", "h", "p", "_", "1">>)} :
         guardian = [NoGuardian EXCEPT !.pc = "load", !.config = c,
                                       !.env.GITHUB_TOKEN = token]

\* the module is evaluated down to the settings
LoadConfiguration ==
    /\ guardian.pc = "load"
    /\ guardian' = [guardian EXCEPT !.settings = LoadSettings(guardian.config, guardian.env),
                                    !.pc = "loaded"]
    /\ UNCHANGED <<batch, scan, provided, returned, rendering, lastIndexes, rescan, probe, pair, cli>>

ConstructGuardian ==
    /\ guardian.pc = "loaded"
    /\ guardian' = [guardian EXCEPT !.self = NewRepositoryGuardian(guardian.settings,
                                                                   guardian.env),
                                    !.pc = "ready"]
    /\ UNCHANGED <<batch, scan, provided, returned, rendering, lastIndexes, rescan, probe, pair, cli>>

CallProtectRepository ==
    /\ guardian.pc = "ready"
    /\ Len(guardian.repos) < MaxProtected
    /\ \E repoName \in RepoNames, isPrivate \in BOOLEAN,
          description \in {<<>>, <<"b", "i", "l", "l", "i", "n", "g">>} :
         guardian' = ProtectRepository(guardian, repoName, description, isPrivate)
    /\ UNCHANGED <<batch, scan, provided, returned, rendering, lastIndexes, rescan, probe, pair, cli>>

SpecConfig == InitConfig /\ [][LoadConfiguration]_vars

NextGuardian ==
    \/ LoadConfiguration
    \/ ConstructGuardian
    \/ CallProtectRepository

SpecGuardian == InitGuardian /\ [][NextGuardian]_vars

(***************************************************************************)
(* Two scanRepository invocations in progress on one WorkflowsScanner.     *)
(* Each invocation has its own frame (its workflowFiles, its position in   *)
(* the loop, its issues array); the pattern objects of securityRules are   *)
(* the module's and are used by both.                                      *)
(***************************************************************************)

\* every invocation pushes to one and the same issues array
ResumeOnSharedIssues(invocations, i, response, patterns) ==
    IF invocations[i].pc = "fetch" /\ response.kind = "data" /\ response.hasContent
    THEN CHOOSE resumed \in
           {[invocations |->
               [j \in 1..Len(invocations) |->
                  IF j = i
                  THEN ScanLoop([invocations[i] EXCEPT !.issues = PushIssues(@, run.issues)],
                                invocations[i].idx + 1)
                  ELSE [invocations[j] EXCEPT
                          !.issues = PushIssues(invocations[i].issues, run.issues)]],
             lastIndexes |-> run.lastIndexes] :
              run \in {ExecLines(invocations[i].workflowFiles[invocations[i].idx].name,
                                 SplitLines(FromBase64(response.content)), 0, patterns)}} :
           TRUE
    ELSE [invocations |-> [invocations EXCEPT ![i] = IF @.pc = "list"
                                                     THEN OnListing(@, response)
                                                     ELSE OnContent(@, response)],
          lastIndexes |-> patterns]

\* the event loop resumes invocation i with the answer to the request it
\* awaits; the invocation runs up to its next await or its return
\* (lines 62-112).  The lines of a file are tested on the pattern objects
\* of the module (run: the issues of the file, and the lastIndex of every
\* pattern afterwards); any other answer is handled as in OnListing and
\* OnContent and touches no pattern
Resume(invocations, i, response, patterns) ==
    IF invocations[i].pc = "fetch" /\ response.kind = "data" /\ response.hasContent
    THEN CHOOSE resumed \in
           {[invocations |->
               [invocations EXCEPT ![i] =
                  ScanLoop([invocations[i] EXCEPT !.issues = PushIssues(@, run.issues)],
                           invocations[i].idx + 1)],
             lastIndexes |-> run.lastIndexes] :
              run \in {ExecLines(invocations[i].workflowFiles[invocations[i].idx].name,
                                 SplitLines(FromBase64(response.content)), 0, patterns)}} :
           TRUE
    ELSE [invocations |-> [invocations EXCEPT ![i] = IF @.pc = "list"
                                                     THEN OnListing(@, response)
                                                     ELSE OnContent(@, response)],
          lastIndexes |-> patterns]

InitPair ==
    /\ ScannerIdle
    /\ ElsewhereIdle

\* scanRepository is called for a repository that no invocation in
\* progress scans
PairCall ==
    /\ Len(pair) < 2
    /\ \E repo \in RepoNames :
         /\ \A i \in 1..Len(pair) : pair[i].repo # repo
         /\ pair' = Append(pair, ScanCall(repo))
         /\ provided' = Append(provided, NewCall(repo))
    /\ UNCHANGED <<batch, scan, returned, rendering, lastIndexes, rescan, probe, guardian, cli>>

\* the provider answers the request of one of the invocations
PairAnswered ==
    \E i \in 1..Len(pair) :
      /\ pair[i].pc \in {"list", "fetch"}
      /\ \E response \in IF pair[i].pc = "list"
                         THEN ListingResponses({Entry("file", NameCi),
                                                Entry("file", NameRelease)},
                                               {"Not Found"})
                         ELSE ContentResponses({<<"k", "e", "y", ":", "\"", "x", "\"">>,
                                                <<"o", "n", ":">>},
                                               {"Not Found"}) :
           LET resumed == Resume(pair, i, response, lastIndexes)
           IN  /\ pair' = resumed.invocations
               /\ lastIndexes' = resumed.lastIndexes
               /\ provided' =
                    IF pair[i].pc = "list"
                    THEN [provided EXCEPT ![i].listing = <<response>>]
                    ELSE [provided EXCEPT ![i].contents =
                            Append(@, [file     |-> pair[i].workflowFiles[pair[i].idx],
                                       response |-> response])]
      /\ UNCHANGED <<batch, scan, returned, rendering, rescan, probe, guardian, cli>>

SpecPair == InitPair /\ [][PairCall \/ PairAnswered]_vars

(***************************************************************************)
(* The CLI (cli.ts).  questions holds the callbacks that rl.question has   *)
(* registered and that no line has been given to yet; handler is the       *)
(* await that a handler is suspended at: "list" (option 1, listForOrg),    *)
(* "scan" (option 2, scanner.scanRepository), "org" and "each" (option 3,  *)
(* listForOrg and the scanRepository of the loop), "get" and "protection"  *)
(* (option 4, repos.get and repos.getBranchProtection), or "none".  The    *)
(* counters tell what happened since the last line given to the menu:      *)
(* menus shown, requests started, report files written, errors printed.    *)
(***************************************************************************)

\* the number of lines the user gives to the menu
MaxSelections == 2

\* mainMenu (lines 317-345): displayMenu() and rl.question
mainMenu(c) == [c EXCEPT !.menus = @ + 1, !.questions = Append(@, "menu")]

\* a switch that ends every case but the exit with mainMenu()
OnOptionMenuInEveryCase(c, option) ==
    LET selected == Trim(option)
    IN  CASE selected = <<"1">> -> [c EXCEPT !.handler = "list", !.requests = @ + 1]
          [] selected \in {<<"2">>, <<"4">>} ->
               mainMenu([c EXCEPT !.questions = Append(@, "name")])
          [] selected = <<"3">> -> [c EXCEPT !.handler = "org", !.requests = @ + 1]
          [] selected = <<"5">> -> [c EXCEPT !.closed = TRUE]
          [] OTHER -> mainMenu(c)

\* the callback of the menu's question up to its first await that waits
\* (lines 320-343).  scanRepository and generateComplianceReport register
\* their question and return, so awaiting them does not wait
OnOption(c, option) ==
    LET selected == Trim(option)
    IN  CASE selected = <<"1">> -> [c EXCEPT !.handler = "list", !.requests = @ + 1]
          [] selected \in {<<"2">>, <<"4">>} -> [c EXCEPT !.questions = Append(@, "name")]
          [] selected = <<"3">> -> [c EXCEPT !.handler = "org", !.requests = @ + 1]
          [] selected = <<"5">> -> [c EXCEPT !.closed = TRUE]
          [] OTHER -> mainMenu(c)

\* a check of the name as it was typed
OnRepoNameAsTyped(c, repoName) ==
    IF repoName = <<>>
    THEN mainMenu([c EXCEPT !.errors = @ + 1])
    ELSE [c EXCEPT !.handler = IF c.option = <<"2">> THEN "scan" ELSE "get",
                   !.requests = @ + 1]

\* the callback of "Enter repository name: " up to its first await
\* (lines 83-97 and 181-193)
OnRepoName(c, repoName) ==
    IF Trim(repoName) = <<>>
    THEN mainMenu([c EXCEPT !.errors = @ + 1])
    ELSE [c EXCEPT !.handler = IF c.option = <<"2">> THEN "scan" ELSE "get",
                   !.requests = @ + 1]

\* handlers whose catch block returns
OnSettledReturnInCatch(c, outcome) ==
    LET done    == [c EXCEPT !.handler = "none"]
        written == [done EXCEPT !.written = @ + 1]
        caught  == [done EXCEPT !.errors = @ + 1]
    IN  CASE c.handler = "list" -> IF outcome = "throw" THEN caught ELSE mainMenu(done)
          [] c.handler = "scan" -> IF outcome = "disk" THEN caught ELSE mainMenu(written)
          [] c.handler = "org" ->
               IF outcome = "throw" THEN caught
               ELSE IF c.left = 0 THEN mainMenu(done)
               ELSE [c EXCEPT !.handler = "each", !.requests = @ + 1]
          [] c.handler = "each" ->
               IF outcome = "disk" THEN caught
               ELSE IF c.left = 1 THEN mainMenu([written EXCEPT !.left = 0])
               ELSE [c EXCEPT !.written = @ + 1, !.left = @ - 1, !.requests = @ + 1]
          [] c.handler = "get" ->
               IF outcome = "throw" THEN caught
               ELSE [c EXCEPT !.handler = "protection", !.requests = @ + 1]
          [] c.handler = "protection" ->
               IF outcome = "disk" THEN caught ELSE mainMenu(written)

\* the handler in progress is resumed at its await and runs up to its next
\* await or its end.  outcome: the request succeeded ("ok"), it threw
\* ("throw"; scanner.scanRepository throws nothing and returns a result
\* with success: false), or it succeeded and the report file could then
\* not be written ("disk").  listRepositories (lines 54-78, then line 323),
\* scanRepository (98-124), scanAllRepositories (136-175),
\* generateComplianceReport (190-311)
OnSettled(c, outcome) ==
    LET done    == [c EXCEPT !.handler = "none"]
        written == [done EXCEPT !.written = @ + 1]
        caught  == [done EXCEPT !.errors = @ + 1]
    IN  CASE c.handler = "list" -> mainMenu(IF outcome = "throw" THEN caught ELSE done)
          [] c.handler = "scan" -> mainMenu(IF outcome = "disk" THEN caught ELSE written)
          [] c.handler = "org" ->
               IF outcome = "throw" THEN mainMenu(caught)
               ELSE IF c.left = 0 THEN mainMenu(done)
               ELSE [c EXCEPT !.handler = "each", !.requests = @ + 1]
          [] c.handler = "each" ->
               IF outcome = "disk" THEN mainMenu(caught)
               ELSE IF c.left = 1 THEN mainMenu([written EXCEPT !.left = 0])
               ELSE [c EXCEPT !.written = @ + 1, !.left = @ - 1, !.requests = @ + 1]
          [] c.handler = "get" ->
               IF outcome = "throw" THEN mainMenu(caught)
               ELSE [c EXCEPT !.handler = "protection", !.requests = @ + 1]
          [] c.handler = "protection" ->
               mainMenu(IF outcome = "disk" THEN caught ELSE written)

\* the module has run to its end (line 351): the menu is shown and asks
InitCli ==
    /\ batch = NoBatch
    /\ scan = Idle
    /\ provided = <<>>
    /\ returned = <<>>
    /\ rendering = NoRendering
    /\ lastIndexes = FreshPatterns
    /\ rescan = NoRescan
    /\ probe = NoProbe
    /\ guardian = NoGuardian
    /\ pair = <<>>
    /\ cli = mainMenu([pc |-> "started", questions |-> <<>>, handler |-> "none",
                       closed |-> FALSE, option |-> <<>>, answered |-> FALSE,
                       repoName |-> <<>>, left |-> 0, selections |-> 0,
                       menus |-> 0, requests |-> 0, written |-> 0, errors |-> 0])

\* the user gives a line to the question of the menu; left is the number
\* of repositories that listForOrg will name if it is asked
AnswerMenu ==
    /\ cli.questions # <<>>
    /\ Head(cli.questions) = "menu"
    /\ cli.selections < MaxSelections
    /\ \E option \in {<<"1">>, <<"2">>, <<"3">>, <<"4">>, <<"5">>, <<" ", "2", " ">>,
                      <<"6">>, <<>>},
          repos \in 0..Cardinality(RepoNames) :
         cli' = OnOption([cli EXCEPT !.questions = Tail(@), !.option = Trim(option),
                                     !.answered = FALSE, !.repoName = <<>>,
                                     !.left = repos, !.selections = @ + 1,
                                     !.menus = 0, !.requests = 0, !.written = 0,
                                     !.errors = 0],
                         option)
    /\ UNCHANGED <<batch, scan, provided, returned, rendering, lastIndexes, rescan, probe, guardian, pair>>

\* the user gives a line to "Enter repository name: "
AnswerRepositoryName ==
    /\ cli.questions # <<>>
    /\ Head(cli.questions) = "name"
    /\ \E repoName \in {<<>>, <<" ", " ">>, <<"\t">>, RepoApi, <<" ">> \o RepoWeb} :
         cli' = OnRepoName([cli EXCEPT !.questions = Tail(@), !.answered = TRUE,
                                       !.repoName = repoName],
                           repoName)
    /\ UNCHANGED <<batch, scan, provided, returned, rendering, lastIndexes, rescan, probe, guardian, pair>>

\* the request that the handler awaits settles
RequestSettled ==
    /\ cli.handler # "none"
    /\ \E outcome \in {"ok", "throw", "disk"} : cli' = OnSettled(cli, outcome)
    /\ UNCHANGED <<batch, scan, provided, returned, rendering, lastIndexes, rescan, probe, guardian, pair>>

SpecCli == InitCli /\ [][AnswerMenu \/ AnswerRepositoryName \/ RequestSettled]_vars

\* every request settles, and the event loop then resumes the handler
SpecCliFair == SpecCli /\ WF_vars(RequestSettled)

(***************************************************************************)
(* Properties of scanRepository (specification Spec)                       *)
(***************************************************************************)

\* the scanRepository call in progress has fulfilled its promise
Settled == scan.pc = "returned"

\* what the provider answered to the call in progress
ThisCall == provided[Len(provided)]

\* the provider failed: the listing threw or is no array, or a fetch threw
ProviderFailed(call) ==
    \/ call.listing # <<>> /\ call.listing[1].kind \in {"throw", "object"}
    \/ \E k \in 1..Len(call.contents) : call.contents[k].response.kind = "throw"

\* the fetches of the call that delivered a text
Analysed(call) ==
    {k \in 1..Len(call.contents) :
       call.contents[k].response.kind = "data" /\ call.contents[k].response.hasContent}

TextOf(call, k) == call.contents[k].response.content.text

RuleIds(issues) == [k \in 1..Len(issues) |-> issues[k].rule]

\* the ids of the rules whose pattern matches the line, in rule-set order
MatchingRuleIds(line) ==
    LET Matches(rule) == PatternTest(rule.pattern, line)
        matching == SelectSeq(securityRules, Matches)
    IN  [k \in 1..Len(matching) |-> matching[k].id]

\* the issues of one line of one file, in the order of the list
IssuesAt(issues, name, n) ==
    LET Here(issue) == issue.file = name /\ issue.line = n
    IN  SelectSeq(issues, Here)

IssuesOfFile(issues, name) ==
    LET Here(issue) == issue.file = name
    IN  SelectSeq(issues, Here)

\* C1: for every line of every scanned file the result holds exactly one
\* finding per rule whose pattern matches the line, in rule-set order (none
\* for a line that matches no rule)
C1_OneFindingPerMatchingRule ==
    (Settled /\ scan.result.success) =>
      \A k \in Analysed(ThisCall) :
        LET name  == ThisCall.contents[k].file.name
            lines == SplitLines(TextOf(ThisCall, k))
        IN  \A n \in 1..Len(lines) :
              RuleIds(IssuesAt(scan.result.issues, name, n)) = MatchingRuleIds(lines[n])

\* C1 witness: a scanned file with a line matching no rule, a line matching
\* one rule and a line matching all four
C1_Witness ==
    /\ Settled /\ scan.result.success
    /\ \E k \in Analysed(ThisCall) :
         LET name == ThisCall.contents[k].file.name
         IN  /\ TextOf(ThisCall, k) = MixedYml
             /\ Len(IssuesAt(scan.result.issues, name, 1)) = 1
             /\ Len(IssuesAt(scan.result.issues, name, 2)) = 4
    /\ \E k \in Analysed(ThisCall) :
         LET name == ThisCall.contents[k].file.name
         IN  /\ TextOf(ThisCall, k) = RiskyYml
             /\ Len(IssuesAt(scan.result.issues, name, 1)) = 0
             /\ Len(IssuesAt(scan.result.issues, name, 2)) = 2

\* position of the file called name in the listing the call received
FileIndex(name) ==
    CHOOSE j \in 1..Len(scan.workflowFiles) : scan.workflowFiles[j].name = name

RuleIndex(id) == CHOOSE r \in 1..Len(securityRules) : securityRules[r].id = id

\* C2: the findings of a successful result are the per-file findings, file
\* after file in the order of the listing, within a file by increasing line
\* and on one line in rule-set order
C2_FindingsInFileThenLineOrder ==
    (Settled /\ scan.result.success) =>
      LET issues == scan.result.issues
      IN  /\ \A i, j \in 1..Len(issues) :
               i < j =>
                 \/ FileIndex(issues[i].file) < FileIndex(issues[j].file)
                 \/ /\ issues[i].file = issues[j].file
                    /\ \/ issues[i].line < issues[j].line
                       \/ /\ issues[i].line = issues[j].line
                          /\ RuleIndex(issues[i].rule) < RuleIndex(issues[j].rule)
          /\ \A k \in Analysed(ThisCall) :
               IssuesOfFile(issues, ThisCall.contents[k].file.name)
                 = analyzeWorkflow(ThisCall.contents[k].file.name, TextOf(ThisCall, k))
          /\ \A i \in 1..Len(issues) :
               \E k \in Analysed(ThisCall) : ThisCall.contents[k].file.name = issues[i].file

\* C2 witness: a successful result with findings of two files
C2_Witness ==
    /\ Settled /\ scan.result.success
    /\ \E i, j \in 1..Len(scan.result.issues) :
         scan.result.issues[i].file # scan.result.issues[j].file

\* C3: a result with success = false has no issues
C3_FailureHasNoFindings ==
    Settled /\ ~scan.result.success => scan.result.issues = <<>>

\* C3 witness: a fetch threw after an earlier file had produced findings
C3_Witness ==
    /\ Settled /\ ~scan.result.success
    /\ scan.issues # <<>>
    /\ ThisCall.contents[Len(ThisCall.contents)].response.kind = "throw"

\* C4: success is false exactly when the provider failed; a source that
\* was retrieved gives success = true, also without any finding
C4_FailureOnlyOnRetrieval ==
    Settled => (scan.result.success <=> ~ProviderFailed(ThisCall))

\* C4 witness: a retrieved and analysed file without findings
C4_Witness ==
    /\ Settled /\ scan.result.success
    /\ scan.result.issues = <<>>
    /\ Analysed(ThisCall) # {}

\* C5: an empty listing gives success = true and no findings
C5_EmptyListingSucceeds ==
    (Settled /\ ThisCall.listing[1].kind = "array" /\ ThisCall.listing[1].files = <<>>)
      => (scan.result.success /\ scan.result.issues = <<>>)

\* C5 witness: the call returned for an empty listing
C5_Witness ==
    /\ Settled
    /\ ThisCall.listing[1].kind = "array"
    /\ ThisCall.listing[1].files = <<>>

\* C6: scanRepository never rejects; whatever the provider answers the call
\* returns a result, and a provider failure is a result with success = false
\* and a message
C6_NeverRejects ==
    /\ scan.pc # "rejected"
    /\ \A i \in 1..Len(returned) :
         /\ returned[i].pc = "returned"
         /\ ProviderFailed(provided[i]) =>
              (~returned[i].result.success /\ returned[i].result.message # <<>>)

\* C6 witness: the caller got a result although a file fetch threw
C6_Witness ==
    /\ Len(returned) = 1
    /\ returned[1].pc = "returned"
    /\ provided[1].contents # <<>>
    /\ provided[1].contents[Len(provided[1].contents)].response.kind = "throw"

(***************************************************************************)
(* Properties of scanAllRepositories (specification SpecAll)               *)
(***************************************************************************)

\* the findings of the texts the provider delivered for one call, in the
\* order it delivered them
RECURSIVE FindingsOf(_)
FindingsOf(contents) ==
    IF contents = <<>> THEN <<>>
    ELSE (IF Head(contents).response.kind = "data" /\ Head(contents).response.hasContent
          THEN analyzeWorkflow(Head(contents).file.name, Head(contents).response.content.text)
          ELSE <<>>)
         \o FindingsOf(Tail(contents))

Rendered == rendering.pc = "returned"

SummaryLabels == <<"- Critical: ", "- High: ", "- Medium: ", "- Low: ">>

SectionTitles ==
    <<"## Critical Issues", "## High Issues", "## Medium Issues", "## Low Issues">>

\* the lines of the report that begin with the text
LinesWith(report, text) ==
    {k \in 1..Len(report) : Len(report[k]) >= 1 /\ report[k][1] = Str(text)}

\* the number of issues of the severity
CountOf(issues, sev) == Cardinality({i \in 1..Len(issues) : issues[i].severity = sev})

\* the number printed on the summary line of severity number s
Printed(report, s) ==
    report[CHOOSE k \in LinesWith(report, SummaryLabels[s]) : TRUE][2].n

\* C8: every count printed in the summary is the number of findings of its
\* severity; a result with findings has all four counts, zero included, and
\* they add up to the number of findings
C8_SummaryCountsMatch ==
    Rendered =>
      LET issues == rendering.scanResult.issues
          report == rendering.report
      IN  /\ \A s \in 1..4 :
               \A k \in LinesWith(report, SummaryLabels[s]) :
                 report[k] = <<Str(SummaryLabels[s]), Num(CountOf(issues, Severities[s]))>>
          /\ (rendering.scanResult.success /\ issues # <<>>) =>
               /\ \A s \in 1..4 : Cardinality(LinesWith(report, SummaryLabels[s])) = 1
               /\ Printed(report, 1) + Printed(report, 2)
                    + Printed(report, 3) + Printed(report, 4) = Len(issues)

\* C8 witness: a report for two high findings, one low and no critical one
C8_Witness ==
    /\ Rendered
    /\ rendering.scanResult.success
    /\ Len(rendering.scanResult.issues) = 3
    /\ CountOf(rendering.scanResult.issues, "high") = 2
    /\ CountOf(rendering.scanResult.issues, "low") = 1
    /\ Printed(rendering.report, 1) = 0

\* a line of a summary, of a severity section or of a finding
FindingsLine(line) ==
    /\ Len(line) >= 1
    /\ \/ line[1] = Str("## Summary")
       \/ \E s \in 1..4 : line[1] = Str(SummaryLabels[s]) \/ line[1] = Str(SectionTitles[s])
       \/ line[1] \in {Str("### "), Str("**File**: "), Str("**Description**: "),
                       Str("**Code**:"), Str("**Remediation**: ")}

\* C9: the report of a failed result is the heading and an error section
\* holding the message, and nothing of a summary or of the issues
C9_FailureReportIsErrorOnly ==
    (Rendered /\ ~rendering.scanResult.success) =>
      LET report == rendering.report
      IN  /\ Len(report) = 6
          /\ report[3] = <<Str("## Error")>>
          /\ report[5] = rendering.scanResult.message
          /\ \A k \in 1..Len(report) : ~FindingsLine(report[k])

\* C9 witness: the report of a failed result that carries issues
C9_Witness ==
    /\ Rendered
    /\ ~rendering.scanResult.success
    /\ rendering.scanResult.issues # <<>>

\* C10: the report of a successful result without findings is the heading
\* and a summary of one line, without counts and without severity sections
C10_NoIssuesReportIsOneLine ==
    (Rendered /\ rendering.scanResult.success /\ rendering.scanResult.issues = <<>>) =>
      LET report == rendering.report
      IN  /\ Len(report) = 6
          /\ report[3] = <<Str("## Summary")>>
          /\ report[4] = Blank
          /\ report[5] = <<Str("No security issues found in workflows. Good job!")>>
          /\ report[6] = Blank
          /\ \A s \in 1..4 :
               /\ LinesWith(report, SummaryLabels[s]) = {}
               /\ LinesWith(report, SectionTitles[s]) = {}

\* C10 witness: the report of a successful result without findings
C10_Witness ==
    /\ Rendered
    /\ rendering.scanResult.success
    /\ rendering.scanResult.issues = <<>>
    /\ Len(rendering.report) = 6

\* the k-th smallest element of a set of numbers
Nth(S, k) == CHOOSE p \in S : Cardinality({q \in S : q < p}) = k - 1

\* the lines that open a finding
FindingHeads(report) == LinesWith(report, "### ")

\* the number of the severity section a line lies in: the last section
\* title above it (0 above the first section)
SectionOf(report, p) ==
    LET above == {s \in 1..4 : \E k \in LinesWith(report, SectionTitles[s]) : k < p}
    IN  IF above = {} THEN 0
        ELSE CHOOSE s \in above :
               \A u \in above :
                 (CHOOSE k \in LinesWith(report, SectionTitles[u]) : TRUE)
                   <= (CHOOSE k \in LinesWith(report, SectionTitles[s]) : TRUE)

\* the finding that opens at line p shows the issue
Shows(report, p, issue) ==
    /\ p + 12 <= Len(report)
    /\ report[p] = <<Str("### "), Str(issue.rule)>>
    /\ \E k \in p..(p + 12) :
         /\ Len(report[k]) >= 1
         /\ report[k][1] = Str("**File**: ")
         /\ \E i, j \in 2..Len(report[k]) :
              /\ i < j
              /\ report[k][i] = Chars(issue.file)
              /\ report[k][j] = Num(issue.line)
    /\ \E k \in p..(p + 12) : report[k] = <<Str("**Description**: "), Str(issue.description)>>
    /\ \E k \in p..(p + 12) : report[k] = <<Chars(issue.content)>>
    /\ \E k \in p..(p + 12) : report[k] = <<Str("**Remediation**: "), Str(issue.remediation)>>

\* C11: the report of a successful result with findings has the summary
\* first, then the severity sections in the order critical, high, medium, low,
\* one for each severity that has findings and none for the others; every
\* finding is shown once, in the section of its severity, in the order of the
\* result, with its file, line, description, text and remediation
C11_SectionsInSeverityOrder ==
    (Rendered /\ rendering.scanResult.success /\ rendering.scanResult.issues # <<>>) =>
      LET issues == rendering.scanResult.issues
          report == rendering.report
          heads  == FindingHeads(report)
      IN  /\ LinesWith(report, "## Summary") = {3}
          /\ \A s \in 1..4 : LinesWith(report, SummaryLabels[s]) = {4 + s}
          /\ \A s \in 1..4 :
               Cardinality(LinesWith(report, SectionTitles[s]))
                 = IF CountOf(issues, Severities[s]) > 0 THEN 1 ELSE 0
          /\ \A s, u \in 1..4 :
               \A k \in LinesWith(report, SectionTitles[s]) :
                 /\ k > 8
                 /\ \A j \in LinesWith(report, SectionTitles[u]) : s < u => k < j
          /\ Cardinality(heads) = Len(issues)
          /\ \A s \in 1..4 :
               LET mine   == FilterSeverity(issues, Severities[s])
                   inSect == {p \in heads : SectionOf(report, p) = s}
               IN  /\ Cardinality(inSect) = Len(mine)
                   /\ \A k \in 1..Len(mine) : Shows(report, Nth(inSect, k), mine[k])

\* C11 witness: a report for two different high findings and a low one,
\* given in the order high, low, high
C11_Witness ==
    /\ Rendered
    /\ rendering.scanResult.success
    /\ Len(rendering.scanResult.issues) = 3
    /\ rendering.scanResult.issues[1].severity = "high"
    /\ rendering.scanResult.issues[2].severity = "low"
    /\ rendering.scanResult.issues[3].severity = "high"
    /\ rendering.scanResult.issues[1] # rendering.scanResult.issues[3]
    /\ Cardinality(FindingHeads(rendering.report)) = 3

(***************************************************************************)
(* Properties of the pattern objects (specification SpecTwice)             *)
(***************************************************************************)

\* C13: analysing the same workflow text a second time gives the findings
\* of the first time, which are those of matching every line from its
\* start, and no analysis leaves a position behind in a pattern object
C13_RescanGivesSameFindings ==
    /\ lastIndexes = FreshPatterns
    /\ rescan.pc \in {"second", "done"} =>
         rescan.first = analyzeWorkflow(NameCi, rescan.content)
    /\ rescan.pc = "done" => rescan.second = rescan.first

\* a text whose first line matches has been analysed twice, with findings
C13_Witness ==
    /\ rescan.pc = "done"
    /\ Len(rescan.second) >= 2
    /\ \E k \in 1..Len(rescan.second) : rescan.second[k].line = 1
    /\ \E k \in 1..Len(rescan.second) : rescan.second[k].line = 2

(***************************************************************************)
(* Entries that are no workflow files (specification Spec)                 *)
(***************************************************************************)

\* a plain file whose name ends in .yml or .yaml
IsWorkflowEntry(file) ==
    LET LastOf(n) == SubSeq(file.name, Len(file.name) - n + 1, Len(file.name))
    IN  /\ file.type = "file"
        /\ \/ LastOf(4) = <<".", "y", "m", "l">>
           \/ LastOf(5) = <<".", "y", "a", "m", "l">>

\* the entries whose content the call has fetched so far, in order
FetchedEntries == [k \in 1..Len(ThisCall.contents) |-> ThisCall.contents[k].file]

\* C14: of a listing, only the plain files named *.yml or *.yaml are ever
\* fetched; the other entries give no finding, and when no provider call
\* fails the result is a success whose findings are those of the fetched
\* workflow files alone, exactly as if the other entries were not listed
C14_OtherEntriesAreSkipped ==
    (scan.pc # "idle" /\ ThisCall.listing # <<>> /\ ThisCall.listing[1].kind = "array") =>
      LET listing == ThisCall.listing[1].files
          wanted  == SelectSeq(listing, IsWorkflowEntry)
      IN  /\ Len(FetchedEntries) <= Len(wanted)
          /\ FetchedEntries = SubSeq(wanted, 1, Len(FetchedEntries))
          /\ \A i \in 1..Len(scan.issues) :
               \E k \in 1..Len(wanted) : scan.issues[i].file = wanted[k].name
          /\ (Settled /\ ~ProviderFailed(ThisCall)) =>
               /\ scan.result.success
               /\ FetchedEntries = wanted
               /\ scan.result.issues = FindingsOf(ThisCall.contents)

\* C14 witness: a listing with an entry that is skipped and a workflow file
\* that has findings was scanned to the end
C14_Witness ==
    /\ Settled /\ scan.result.success
    /\ scan.result.issues # <<>>
    /\ \E k \in 1..Len(ThisCall.listing[1].files) :
         ~IsWorkflowEntry(ThisCall.listing[1].files[k])

(***************************************************************************)
(* What the rules fire on (specification SpecRules)                        *)
(***************************************************************************)

\* the findings of the probed line that the rule gave
FindingsBy(ruleId) ==
    LET Mine(issue) == issue.rule = ruleId
    IN  SelectSeq(probe.findings, Mine)

Fires(ruleId) == FindingsBy(ruleId) # <<>>

Probed(kind) == probe.pc = "done" /\ probe.kind = kind

\* C15: pin-actions-versions fires on a `uses:` reference pinned to main,
\* master, latest or a bare number, with severity high, and on no reference
\* pinned to a commit identifier
C15_PinRuleSparesCommitIds ==
    Probed("uses") =>
      /\ probe.arg \in MutableRefs =>
           /\ Len(FindingsBy("pin-actions-versions")) = 1
           /\ FindingsBy("pin-actions-versions")[1].severity = "high"
      /\ probe.arg \in ShaRefs => ~Fires("pin-actions-versions")

\* the text starts with the prefix
StartsWith(text, prefix) == At(text, 1, prefix)

\* C16: third-party-action-review fires on a `uses:` line exactly when the
\* action referenced is neither under actions/ nor a local ./ path, and its
\* finding has severity medium
C16_ThirdPartyRuleSparesFirstParty ==
    Probed("uses") =>
      /\ Fires("third-party-action-review")
           <=> (~StartsWith(probe.name, KwActions) /\ ~StartsWith(probe.name, KwLocal))
      /\ \A k \in 1..Len(FindingsBy("third-party-action-review")) :
           FindingsBy("third-party-action-review")[k].severity = "medium"

\* some part of the text is the word, whatever the case of the letters
ContainsFold(text, word) == \E p \in 1..Len(text) : AtFold(text, p, word)

\* a non-empty literal between two quotes of one kind
QuotedLiteral(value) ==
    /\ Len(value) >= 3
    /\ value[1] \in Quotes
    /\ value[Len(value)] = value[1]
    /\ \A k \in 2..(Len(value) - 1) : value[k] \notin Quotes

\* C17: the line password: "supersecret123" gives exactly one finding, of
\* no-plaintext-secrets with severity critical; the rule fires on an
\* assignment exactly when the name of the key contains password, token,
\* key or secret in any case and the value is a non-empty quoted literal,
\* and on no line that is no assignment
C17_SecretRuleFiresOnKeyContainingKeyword ==
    /\ Probed("assign") =>
         /\ Fires("no-plaintext-secrets")
              <=> /\ \E w \in {KwPassword, KwToken, KwKey, KwSecret} :
                       ContainsFold(probe.name, w)
                  /\ QuotedLiteral(probe.arg)
         /\ (probe.name = KwPassword /\ probe.arg = ValSuperSecret) =>
              /\ Len(probe.findings) = 1
              /\ probe.findings[1].rule = "no-plaintext-secrets"
              /\ probe.findings[1].severity = "critical"
    /\ Probed("uses") => ~Fires("no-plaintext-secrets")

\* the text ends with the word, whatever the case of the letters
EndsWithFold(text, word) ==
    /\ Len(text) >= Len(word)
    /\ \A k \in 1..Len(word) :
         Fold(text[Len(text) - Len(word) + k]) = Fold(word[k])

\* a quote of either kind, one or more characters that are no quotes, and
\* a quote of either kind
OpensQuotedText(value) ==
    /\ Len(value) >= 3
    /\ value[1] \in Quotes
    /\ value[2] \notin Quotes
    /\ \E k \in 3..Len(value) : value[k] \in Quotes

\* C17 as amended: the line password: "supersecret123" gives exactly one
\* finding, of no-plaintext-secrets with severity critical; the rule fires
\* on an assignment exactly when the name of the key ends, in any case, with
\* password, token, key or secret and the value opens with a quote, one or
\* more characters that are no quotes, and a quote of either kind; it does
\* not fire on a `uses:` line
C17_SecretRuleFiresOnKeywordBeforeColon ==
    /\ Probed("assign") =>
         /\ Fires("no-plaintext-secrets")
              <=> /\ \E w \in {KwPassword, KwToken, KwKey, KwSecret} :
                       EndsWithFold(probe.name, w)
                  /\ OpensQuotedText(probe.arg)
         /\ (probe.name = KwPassword /\ probe.arg = ValSuperSecret) =>
              /\ Len(probe.findings) = 1
              /\ probe.findings[1].rule = "no-plaintext-secrets"
              /\ probe.findings[1].severity = "critical"
    /\ Probed("uses") => ~Fires("no-plaintext-secrets")

\* C17 witness: the rule fired on a key in upper case
C17_Witness ==
    /\ Probed("assign")
    /\ probe.name = KeyUpper
    /\ probe.arg = ValSuperSecret
    /\ Fires("no-plaintext-secrets")

\* C18: pin-actions-versions fires on every `uses:` reference that carries
\* a ref which is no commit identifier, the tags v1 and v3 included
C18_PinRuleFlagsVersionTags ==
    (Probed("uses") /\ probe.arg # <<>> /\ probe.arg \notin ShaRefs)
      => Fires("pin-actions-versions")

(***************************************************************************)
(* Properties of the guardian (specifications SpecGuardian, SpecConfig)    *)
(***************************************************************************)

\* the branch protections made for the repository
ProtectionsOf(repo) ==
    LET Mine(protection) == protection.repositoryId = repo.nodeId
    IN  SelectSeq(guardian.protections, Mine)

\* C19: every repository made by protectRepository has one branch
\* protection, on the default branch of the settings, that enforces the
\* rules for administrators, allows neither force pushes nor deletions, and
\* requires the status checks and the number of approving reviews of the
\* settings, whatever the name, description and visibility asked for
C19_EveryRepositoryIsProtected ==
    \A k \in 1..Len(guardian.repos) :
      LET mine == ProtectionsOf(guardian.repos[k])
      IN  /\ Len(mine) = 1
          /\ mine[1].pattern = guardian.settings.defaultBranch
          /\ mine[1].enforceAdmins
          /\ ~mine[1].allowsForcePushes
          /\ ~mine[1].allowsDeletions
          /\ mine[1].contexts = guardian.settings.requiredStatusChecks
          /\ mine[1].requiredApprovingReviewCount = guardian.settings.minReviewers

\* C19 witness: a public and a private repository were protected under
\* settings that come from the configuration
C19_Witness ==
    /\ Len(guardian.repos) = 2
    /\ guardian.repos[1].visibility = "public"
    /\ guardian.repos[2].visibility = "private"
    /\ guardian.settings.defaultBranch = BranchDevelop
    /\ guardian.settings.minReviewers = JsNumber(MaxReviewers)

\* the value of the configuration when set, else that of the environment
\* when set, else the default
Precedence(configured, fromEnv, default) ==
    IF configured.set THEN configured.value
    ELSE IF fromEnv.set THEN fromEnv.value
    ELSE default

\* C20: every setting is the value of the Pulumi configuration when one is
\* set, otherwise that of the environment variable when one is set,
\* otherwise the default: main, tests and linting, 2, daily
C20_ConfigurationTakesPrecedence ==
    guardian.pc = "loaded" =>
      LET config   == guardian.config
          env      == guardian.env
          settings == guardian.settings
      IN  /\ settings.organization
               = Precedence(config.organization, env.GITHUB_ORGANIZATION, <<>>)
          /\ settings.defaultBranch
               = Precedence(config.defaultBranch, env.DEFAULT_BRANCH, BranchMain)
          /\ settings.requiredStatusChecks
               = Precedence(config.requiredStatusChecks,
                            [env.REQUIRED_STATUS_CHECKS EXCEPT !.value = SplitComma(@)],
                            DefaultStatusChecks)
          /\ settings.minReviewers
               = Precedence([config.minReviewers EXCEPT !.value = JsNumber(@)],
                            [env.MIN_REVIEWERS EXCEPT !.value = ParseInt(@)],
                            JsNumber(2))
          /\ settings.scanFrequency
               = Precedence(config.scanFrequency, env.SCAN_FREQUENCY, FrequencyDaily)

(***************************************************************************)
(* The fields of a finding (specification Spec)                            *)
(***************************************************************************)

\* content is line number n of the text, counted from 1, without the white
\* space at its two ends: n - 1 line feeds come before the line, none lies
\* in it, and around the content the line holds white space only
IsTrimmedLine(text, n, content) ==
    \E s \in 1..(Len(text) + 1), e \in 0..Len(text) :
      /\ s = 1 \/ text[s - 1] = "\n"
      /\ e = Len(text) \/ text[e + 1] = "\n"
      /\ e >= s - 1
      /\ \A k \in s..e : text[k] # "\n"
      /\ Cardinality({k \in 1..(s - 1) : text[k] = "\n"}) = n - 1
      /\ \E a \in s..(e + 1), b \in (s - 1)..e :
           /\ content = SubSeq(text, a, b)
           /\ \A k \in (s..(a - 1)) \cup ((b + 1)..e) : text[k] \in WhiteSpace
           /\ content # <<>> =>
                (content[1] \notin WhiteSpace /\ content[Len(content)] \notin WhiteSpace)

\* C21: the line of every finding is the number, counted from 1, of a line
\* of the file it names, at most the number of lines of that file, and its
\* content is that line without leading and trailing white space
C21_LineIsOneBasedContentTrimmed ==
    scan.pc # "idle" =>
      \A i \in 1..Len(scan.issues) :
        \E k \in Analysed(ThisCall) :
          LET text == TextOf(ThisCall, k)
          IN  /\ ThisCall.contents[k].file.name = scan.issues[i].file
              /\ scan.issues[i].line >= 1
              /\ scan.issues[i].line <= Cardinality({j \in 1..Len(text) : text[j] = "\n"}) + 1
              /\ IsTrimmedLine(text, scan.issues[i].line, scan.issues[i].content)

\* C21 witness: a result with a finding on the first line of a file and one
\* on an indented line further down
C21_Witness ==
    /\ Settled /\ scan.result.success
    /\ \E i, j \in 1..Len(scan.result.issues) :
         /\ scan.result.issues[i].line = 1
         /\ scan.result.issues[j].line > 1
         /\ \E k \in Analysed(ThisCall) :
              /\ ThisCall.contents[k].file.name = scan.result.issues[j].file
              /\ \E q \in 1..Len(TextOf(ThisCall, k)) :
                   At(TextOf(ThisCall, k), q, <<" ", " ">> \o scan.result.issues[j].content)

\* the finding carries the id, severity, description and remediation of
\* one rule of the rule set, and the severity listed for that id
CarriesItsRule(issue) ==
    /\ \E r \in 1..Len(securityRules) :
         /\ issue.rule = securityRules[r].id
         /\ issue.severity = securityRules[r].severity
         /\ issue.description = securityRules[r].description
         /\ issue.remediation = securityRules[r].remediation
    /\ issue.severity =
         (CASE issue.rule = "no-plaintext-secrets"      -> "critical"
            [] issue.rule = "pin-actions-versions"      -> "high"
            [] issue.rule = "third-party-action-review" -> "medium"
            [] issue.rule = "script-injection"          -> "high"
            [] OTHER                                    -> "none")
    /\ issue.severity # "low"

\* C22: every finding, while the scan collects it and in every result
\* returned, carries the fields of the rule it names, so none has severity
\* low; and a step never changes a finding collected or returned before it
C22_FindingsCarryTheirRule ==
    /\ [](/\ \A i \in 1..Len(scan.issues) : CarriesItsRule(scan.issues[i])
          /\ \A i \in 1..Len(scan.result.issues) : CarriesItsRule(scan.result.issues[i])
          /\ \A k \in 1..Len(returned) :
               \A i \in 1..Len(returned[k].result.issues) :
                 CarriesItsRule(returned[k].result.issues[i]))
    /\ [][/\ scan.pc \in {"fetch", "returned"} =>
               /\ Len(scan'.issues) >= Len(scan.issues) \/ scan'.pc = "idle"
               /\ scan'.pc # "idle" =>
                    SubSeq(scan'.issues, 1, Len(scan.issues)) = scan.issues
          /\ \A k \in 1..Len(returned) :
               /\ Len(returned') >= k
               /\ returned'[k] = returned[k]]_vars

\* C22 witness: a result was returned with findings of all four rules
C22_Witness ==
    /\ returned # <<>>
    /\ returned[1].result.success
    /\ \A r \in 1..Len(securityRules) :
         \E i \in 1..Len(returned[1].result.issues) :
           returned[1].result.issues[i].rule = securityRules[r].id

(***************************************************************************)
(* Line endings (specification SpecTwice)                                  *)
(***************************************************************************)

\* the text with its carriage returns taken out
WithoutCr(text) ==
    LET Kept(c) == c # "\r"
    IN  SelectSeq(text, Kept)

\* C23: the findings of a text whose lines end in carriage return and line
\* feed are those of the same lines ending in a line feed alone: the same
\* rules on the same lines, and no content holds a carriage return
C23_CrlfGivesTheFindingsOfLf ==
    rescan.pc \in {"second", "done"} =>
      /\ rescan.first = analyzeWorkflow(NameCi, WithoutCr(rescan.content))
      /\ \A i \in 1..Len(rescan.first) :
           \A k \in 1..Len(rescan.first[i].content) : rescan.first[i].content[k] # "\r"

\* C23 witness: a text of two lines separated by carriage return and line
\* feed was analysed, with findings on both lines
C23_Witness ==
    /\ rescan.pc = "done"
    /\ \E k \in 1..Len(rescan.content) : rescan.content[k] = "\r"
    /\ \E i, j \in 1..Len(rescan.first) :
         rescan.first[i].line = 1 /\ rescan.first[j].line = 2

(***************************************************************************)
(* Content that is no text (specification Spec)                            *)
(***************************************************************************)

\* the answer delivered a content field that is a base64 encoding
DecodesAsText(fetched) ==
    /\ fetched.response.kind = "data"
    /\ fetched.response.hasContent
    /\ fetched.response.content.stray = 0

\* C24: when no provider call throws, the scan succeeds, and its findings
\* are those of the files whose content arrived and decodes; a file
\* without a content field, or with content that is no base64 encoding,
\* adds nothing
C24_UndecodableFileAddsNothing ==
    (Settled /\ ThisCall.listing[1].kind = "array"
       /\ \A k \in 1..Len(ThisCall.contents) : ThisCall.contents[k].response.kind = "data") =>
      /\ scan.result.success
      /\ scan.result.issues = FindingsOf(SelectSeq(ThisCall.contents, DecodesAsText))

(***************************************************************************)
(* Invocations in progress together (specification SpecPair)               *)
(***************************************************************************)

\* the invocation after it was resumed with the answers from number k on,
\* one after the other, nothing else running in between
RECURSIVE ResumedAlone(_, _, _, _)
ResumedAlone(s, answers, k, patterns) ==
    IF k > Len(answers) THEN s
    ELSE LET resumed == Resume(<<s>>, 1, answers[k], patterns)
         IN  ResumedAlone(resumed.invocations[1], answers, k + 1, resumed.lastIndexes)

\* the invocation that gets the answers of the call while no other
\* invocation is in progress
Alone(call) ==
    ResumedAlone(ScanCall(call.repo),
                 call.listing \o [k \in 1..Len(call.contents) |-> call.contents[k].response],
                 1, FreshPatterns)

\* C25: an invocation that is in progress together with another one, on
\* the same scanner and for another repository, returns the result it
\* returns on the same answers when it runs alone, and between its awaits
\* it holds the findings it holds then
C25_InterleavedScansDoNotMix ==
    \A i \in 1..Len(pair) : pair[i] = Alone(provided[i])

\* one invocation has returned findings while the other one, with findings
\* of its own, waits for its second file
C25_Witness ==
    /\ Len(pair) = 2
    /\ pair[1].repo # pair[2].repo
    /\ pair[1].pc = "returned" /\ pair[1].result.success /\ pair[1].result.issues # <<>>
    /\ Len(provided[1].contents) = 2
    /\ pair[2].pc = "fetch" /\ pair[2].idx = 2 /\ pair[2].issues # <<>>
    /\ pair[2].issues # pair[1].result.issues

(***************************************************************************)
(* The message of a successful scan (specification Spec)                   *)
(***************************************************************************)

\* C29: the message of a result with success = TRUE is the "No security
\* issues found" message exactly when the result has no findings, and
\* otherwise it states a count, which is the number of the findings
C29_MessageAgreesWithFindings ==
    (Settled /\ scan.result.success) =>
      LET message == scan.result.message
          issues  == scan.result.issues
      IN  /\ (message = <<Str("No security issues found in workflows")>>) <=> (issues = <<>>)
          /\ issues # <<>> =>
               message = <<Str("Found "), Num(Len(issues)),
                           Str(" security issues in workflows")>>

\* a successful scan of two files reports more findings than files
C29_Witness ==
    /\ Settled
    /\ scan.result.success
    /\ Len(scan.workflowFiles) = 2
    /\ Len(scan.result.issues) > 2
    /\ scan.result.message[2] = Num(Len(scan.result.issues))

(***************************************************************************)
(* The workflow that protectRepository installs (specification             *)
(* SpecGuardian)                                                           *)
(***************************************************************************)

\* the files that protectRepository put into the workflows directory
InstalledWorkflows ==
    {k \in 1..Len(guardian.files) :
       /\ "content" \in DOMAIN guardian.files[k]
       /\ StartsWith(guardian.files[k].file, WorkflowsDir)}

\* C30: analyzeWorkflow with the default rules finds nothing of severity
\* high or critical in a workflow file that protectRepository installed
C30_InstalledWorkflowPassesTheScanner ==
    \A k \in InstalledWorkflows :
      LET found == analyzeWorkflow(guardian.files[k].file, guardian.files[k].content)
      IN  \A i \in 1..Len(found) : found[i].severity \notin {"high", "critical"}

(***************************************************************************)
(* Properties of the CLI (specifications SpecCli, SpecCliFair)             *)
(***************************************************************************)

\* the selection made at the menu is one that ends with the menu
Selected(options) == cli.selections > 0 /\ cli.option \in options

\* nothing of the selection made is in progress any more
Completed ==
    /\ cli.selections > 0
    /\ ~cli.closed
    /\ cli.handler = "none"
    /\ (cli.questions # <<>> => Head(cli.questions) = "menu")

\* C26: at most one question is outstanding; mainMenu is invoked once
\* after the selection is completed, whatever path the handler took, and
\* not before: not while the handler's question or one of its requests is
\* pending
C26_OneQuestionAndOneMenuPerSelection ==
    /\ Len(cli.questions) <= 1
    /\ cli.menus <= 1
    /\ (cli.handler # "none" \/ cli.questions = <<"name">>) => cli.menus = 0
    /\ Completed => (cli.menus = 1 /\ cli.questions = <<"menu">>)

\* every repository of the organization was scanned and reported, and the
\* menu was then shown once
C26_Witness ==
    /\ Selected({<<"3">>})
    /\ cli.left = 0
    /\ cli.written = Cardinality(RepoNames)
    /\ cli.errors = 0
    /\ cli.menus = 1
    /\ cli.questions = <<"menu">>

\* C27: a handler that awaits a request leads to the menu being shown and
\* its question asked again, whether the request succeeds or fails; as
\* long as the input is open and no request is awaited, a question is
\* pending; and once option 5 has closed the input, no menu is shown and
\* no question asked any more
C27_MenuComesBack ==
    /\ (cli.handler # "none") ~> (cli.handler = "none" /\ cli.questions = <<"menu">>)
    /\ []((~cli.closed /\ cli.handler = "none") => cli.questions # <<>>)
    /\ [](cli.closed => [](cli.closed /\ cli.questions = <<>> /\ cli.menus = 0
                             /\ cli.handler = "none"))

\* a request of option 4 failed, the error was printed, and the menu asks
C27_Witness ==
    /\ Selected({<<"4">>})
    /\ cli.requests > 0
    /\ cli.errors = 1
    /\ cli.handler = "none"
    /\ cli.questions = <<"menu">>

\* C28: in options 2 and 4, a repository name that is empty or holds only
\* white space is answered with one error message and the menu: no
\* request is started and no report file is written
C28_BlankNameIsRejected ==
    (Selected({<<"2">>, <<"4">>}) /\ cli.answered /\ Trim(cli.repoName) = <<>>) =>
      /\ cli.requests = 0
      /\ cli.written = 0
      /\ cli.errors = 1
      /\ cli.handler = "none"
      /\ cli.menus = 1
      /\ cli.questions = <<"menu">>

\* option 4 was given a name of two spaces
C28_Witness ==
    /\ Selected({<<"4">>})
    /\ cli.answered
    /\ cli.repoName = <<" ", " ">>
    /\ cli.errors = 1
    /\ cli.requests = 0
    /\ cli.questions = <<"menu">>

====
